---- MODULE Spec2Model ----
(***************************************************************************)
(* A model of the message routing and retrieval core of second-brain:      *)
(* the MessageDirector (agents/director.py), the capability providers      *)
(* (agents/note_taker.py, agents/qa_agent.py, agents/research_agent.py)    *)
(* and the external collaborators they call.                               *)
(*                                                                         *)
(* Confidence scores and similarity scores are floats in the program; the  *)
(* model keeps them as integer hundredths (0.3 is 30, 0.7 is 70).          *)
(***************************************************************************)
EXTENDS Integers, Sequences, FiniteSets, TLC

VARIABLES
    agents,       \* MessageDirector._agents: registered agent names, in order
    pc,           \* position of the current call
    message,      \* the message argument of the current call
    context,      \* the context argument of the current call
    intent,       \* result of _analyze_intent, "none" when it did not run
    llmOutcome,   \* what the intent classifier's completion call did
    target,       \* the agent route_message dispatched to, "none" if none
    dispatchLog,  \* names of the agents whose process was invoked, in order
    response,     \* the AgentResponse returned by route_message
    sbRaising,    \* select_best_agent: the agents whose can_handle raised
    sbScores,     \* select_best_agent: the sorted (agent, score) list
    sbResult,     \* select_best_agent: the returned agent, "None" for None
    cohere,       \* QAAgent.cohere_client is set (a reranker is configured)
    vecOut,       \* _stage2_hybrid_search: what the vector sub-search did
    txtOut,       \* _stage2_hybrid_search: what the full-text sub-search did
    candidates,   \* the candidate list returned by _stage2_hybrid_search
    rerankOut,    \* what the rerank step of the current call did
    topCands,     \* the candidates retained after reranking
    loadFailed,   \* the notes whose get_document raised in the loading loop
    docs,         \* the documents loaded for the retained candidates
    passes,       \* research: the text of each finished pass
    calls,        \* the external calls made by the current call, in order
    store,        \* the leaf documents held by CouchDB, in _find order
    vectors,      \* the note ids that have a point in the vector store
    providerUp,   \* the embedding provider answers (embed_text returns)
    batchSize,    \* BackgroundIndexer.batch_size
    running,      \* BackgroundIndexer._running
    ipc,          \* position of the loop task, "idle" when there is none
    findOutcome,  \* what the last _find_pending_notes call met
    pendingNotes, \* the list the last _find_pending_notes call returned
    batchStart,   \* _indexing_loop: i, the offset of the current batch
    batchPos,     \* _process_batch: documents of the batch already taken
    stats,        \* BackgroundIndexer._stats
    ilog,         \* what the current scan did, in order
    scans,        \* number of _find_pending_notes calls so far
    reindex,      \* what the last reindex_all call did and returned
    stopping,     \* a stop call has cancelled the task and awaits its end
    aliveTasks,   \* number of loop tasks created and not ended
    loopFailed,   \* an external call of the current loop task has failed
    userData,     \* bot: context.user_data, the admin's per-user dict
    prevTarget,   \* bot: the agent the last handled text message went to
    directorUp,   \* bot: the global director is set (the agents were built)
    botHist,      \* bot: what happened since the research button was pressed
    vsInitialized, \* VectorStoreClient._initialized
    vsExists,     \* Qdrant: the collection exists
    vsPoints,     \* Qdrant: the note ids of the points of the collection
    vsCalls,      \* the calls in progress on the client, one per caller
    vsChecks,     \* number of get_collections requests Qdrant answered
    vsCreates,    \* number of create_collection requests Qdrant received
    vsOutages,    \* number of requests that did not reach Qdrant
    vsStarted     \* number of client calls started

routerVars == <<agents, pc, message, context, intent, llmOutcome, target,
                dispatchLog, response, sbRaising, sbScores, sbResult>>

pipeVars == <<cohere, vecOut, txtOut, candidates, rerankOut, topCands, loadFailed, docs, passes, calls>>

idxAux == <<reindex, stopping, aliveTasks, loopFailed>>

idxVars == <<store, vectors, providerUp, batchSize, running, ipc, findOutcome,
             pendingNotes, batchStart, batchPos, stats, ilog, scans, idxAux>>

botVars == <<userData, prevTarget, directorUp, botHist>>

vsVars == <<vsInitialized, vsExists, vsPoints, vsCalls, vsChecks, vsCreates, vsOutages, vsStarted>>

vars == <<routerVars, pipeVars, idxVars, botVars, vsVars>>

----------------------------------------------------------------------------
(* Bounds of the model *)

\* longest message prefix, in atoms
MaxPrefix == 2

(* Program constants *)

\* director.py:114  len(message.split()) < 15
WordThreshold == 15
\* director.py:174  best_score > 0.3
ConfidenceFloor == 30

----------------------------------------------------------------------------
(* Messages.  A message is a string; the model writes it as a sequence of  *)
(* atoms, each a whitespace character or a run of non-whitespace           *)
(* characters, followed by `tail` further words " note".  The atoms are    *)
(* the ones the program's string tests tell apart.                         *)

Atoms == {" ", "/", "?", "what", "What", "which", "note"}

RECURSIVE SeqsUpTo(_, _)
SeqsUpTo(S, n) ==
    IF n = 0 THEN {<<>>}
    ELSE LET shorter == SeqsUpTo(S, n - 1)
         IN  shorter \cup {Append(s, x) : s \in {t \in shorter : Len(t) = n - 1}, x \in S}

Tails == {0, WordThreshold - 1}

Messages == [prefix : SeqsUpTo(Atoms, MaxPrefix), tail : Tails]

RECURSIVE Repeat(_, _)
Repeat(s, k) == IF k = 0 THEN <<>> ELSE s \o Repeat(s, k - 1)

\* the atoms of the whole message text
Text(m) == m.prefix \o Repeat(<<" ", "note">>, m.tail)

\* str.lower() on one atom
LowerAtom(a) == IF a = "What" THEN "what" ELSE a

\* str.lower()
Lower(s) == [i \in 1..Len(s) |-> LowerAtom(s[i])]

RECURSIVE LStrip(_)
LStrip(s) == IF s # <<>> /\ Head(s) = " " THEN LStrip(Tail(s)) ELSE s

RECURSIVE RStrip(_)
RStrip(s) ==
    IF s # <<>> /\ s[Len(s)] = " " THEN RStrip(SubSeq(s, 1, Len(s) - 1)) ELSE s

\* str.strip()
Strip(s) == RStrip(LStrip(s))

\* s.startswith(p) for a string p that is a sequence of whole atoms
StartsWith(s, p) == Len(s) >= Len(p) /\ SubSeq(s, 1, Len(p)) = p

\* '?' in s
Contains(s, a) == \E i \in 1..Len(s) : s[i] = a

\* len(s.split()): the number of maximal runs of non-whitespace
WordCount(s) ==
    Cardinality({i \in 1..Len(s) : s[i] # " " /\ (i = 1 \/ s[i - 1] = " ")})

\* director.py:108-109, the interrogatives among the atoms
IntentQuestionWords == {"what"}

\* base_agent.py:77-80, the interrogatives among the atoms
BaseQuestionWords == {"what", "which"}

----------------------------------------------------------------------------
(* Contexts: a dict that may or may not carry the awaiting_research key *)

NoKeys == [k \in {} |-> FALSE]

Contexts == {NoKeys} \cup [{"awaiting_research"} -> BOOLEAN]

\* dict.get(key, default)
Get(d, key, default) == IF key \in DOMAIN d THEN d[key] ELSE default

----------------------------------------------------------------------------
(* The intent classifier's completion call: it raises, or returns a text.  *)
(* A reply is a word, possibly capitalised and padded with whitespace.     *)

LlmReplies ==
    { [status |-> "replied", word |-> "question", caps |-> FALSE, pad |-> FALSE],
      [status |-> "replied", word |-> "note",     caps |-> FALSE, pad |-> FALSE],
      [status |-> "replied", word |-> "command",  caps |-> FALSE, pad |-> FALSE],
      [status |-> "replied", word |-> "question", caps |-> TRUE,  pad |-> TRUE],
      [status |-> "replied", word |-> "unsure",   caps |-> FALSE, pad |-> FALSE] }

LlmRaised == [status |-> "raised", word |-> "", caps |-> FALSE, pad |-> FALSE]

LlmNotCalled == [status |-> "not_called", word |-> "", caps |-> FALSE, pad |-> FALSE]

LlmOutcomes == {LlmRaised} \cup LlmReplies

\* response.strip().lower()
StripLower(r) == r.word

\* HeuristicIntent with the word-count rule tried before the question rule
HeuristicIntentLengthFirst(m) ==
    LET s == Text(m)
    IN  IF StartsWith(Strip(s), <<"/">>) THEN "command"
        ELSE IF WordCount(s) < WordThreshold THEN "note"
        ELSE IF Contains(s, "?")
                \/ \E q \in IntentQuestionWords : StartsWith(Lower(s), <<q>>)
             THEN "question"
        ELSE "ambiguous"

\* the heuristic part of _analyze_intent: the label, "ambiguous" when none
\* of the rules fires
HeuristicIntent(m) ==
    LET s == Text(m)
    IN  IF StartsWith(Strip(s), <<"/">>) THEN "command"
        ELSE IF Contains(s, "?")
                \/ \E q \in IntentQuestionWords : StartsWith(Lower(s), <<q>>)
             THEN "question"
        ELSE IF WordCount(s) < WordThreshold THEN "note"
        ELSE "ambiguous"

\* AnalyzeIntent returning whatever word the completion call replied
AnalyzeIntentAnyReply(m, o) ==
    LET h == HeuristicIntent(m)
    IN  IF h # "ambiguous" THEN h
        ELSE IF o.status = "replied" THEN StripLower(o)
        ELSE "note"

\* _analyze_intent with the completion call doing o when it is made
AnalyzeIntent(m, o) ==
    LET h == HeuristicIntent(m)
    IN  IF h # "ambiguous" THEN h
        ELSE IF o.status = "replied" /\ StripLower(o) \in {"question", "note", "command"}
             THEN StripLower(o)
        ELSE "note"

----------------------------------------------------------------------------
(* The registry *)

AgentNames == {"note_taker", "qa", "research"}

Registered(a) == \E i \in 1..Len(agents) : agents[i] = a

\* BaseAgent._is_question
IsQuestion(m) ==
    LET s == Text(m)
    IN  Contains(s, "?")
        \/ \E w \in BaseQuestionWords : StartsWith(Lower(s), <<w, " ">>)

\* SmartNoteTaker.can_handle
NoteTakerCanHandle(m) == IF StartsWith(Strip(Text(m)), <<"/">>) THEN 0 ELSE 50

\* QACanHandle scoring a question below the note taker's constant score
QACanHandleBelowNoteTaker(m) == IF IsQuestion(m) THEN 40 ELSE 10

\* QAAgent.can_handle
QACanHandle(m) == IF IsQuestion(m) THEN 90 ELSE 10

\* ResearchAgent.can_handle
ResearchCanHandle(ctx) == IF Get(ctx, "awaiting_research", FALSE) THEN 100 ELSE 0

\* agent.can_handle(message, context) as select_best_agent calls it
CanHandle(a, m, ctx) ==
    CASE a = "note_taker" -> NoteTakerCanHandle(m)
      [] a = "qa"         -> QACanHandle(m)
      [] a = "research"   -> ResearchCanHandle(ctx)

NoResponse == [kind |-> "none"]

\* NoAgentsResponse with the success argument left to its default
NoAgentsResponseDefault == [kind |-> "response", success |-> TRUE, by |-> "director"]

\* the static failure response of route_message
NoAgentsResponse == [kind |-> "response", success |-> FALSE, by |-> "director"]

\* StickyResearch reading the mode under another key
StickyResearchWrongKey(ctx) == Get(ctx, "research_mode", FALSE) /\ Registered("research")

\* the explicit research mode test of route_message
StickyResearch(ctx) == Get(ctx, "awaiting_research", FALSE) /\ Registered("research")

\* RouteTarget giving up on a question when no Q&A agent is registered
RouteTargetNoFallThrough(ctx, i) ==
    IF StickyResearch(ctx) THEN "research"
    ELSE IF i = "question" THEN (IF Registered("qa") THEN "qa" ELSE "none")
    ELSE IF Registered("note_taker") THEN "note_taker"
    ELSE "none"

\* the agent route_message dispatches to, "none" when it returns the
\* static failure
RouteTarget(ctx, i) ==
    IF StickyResearch(ctx) THEN "research"
    ELSE IF i = "question" /\ Registered("qa") THEN "qa"
    ELSE IF Registered("note_taker") THEN "note_taker"
    ELSE "none"

\* an entry of the log of external calls
Call(op, arg) == [op |-> op, arg |-> arg]

\* the rerank step has not been reached in the current call
RerankNotRun == [status |-> "not_run", order |-> <<>>]

\* a sub-search of stage 2 that has not run in the current call
NotRun == [status |-> "not_run", hits |-> <<>>]

----------------------------------------------------------------------------
\* a new context.user_data: no key is set
NoHistory == [sinceHandled |-> FALSE, sinceRouted |-> FALSE, last |-> "none"]

BotStarted ==
    /\ userData = NoKeys
    /\ prevTarget = "none"
    /\ directorUp = TRUE
    /\ botHist = NoHistory

\* the caller has no call in progress on the vector store client
NoCall == [op |-> "none", at |-> "idle", then |-> "return", note |-> 0, result |-> "none"]

VsCallers == {"bot", "indexer"}

\* VectorStoreClient.__init__ over a Qdrant that has no collection yet
VectorClientConstructed ==
    /\ vsInitialized = FALSE
    /\ vsExists = FALSE
    /\ vsPoints = {}
    /\ vsCalls = [c \in VsCallers |-> NoCall]
    /\ vsChecks = 0
    /\ vsCreates = 0
    /\ vsOutages = 0
    /\ vsStarted = 0

\* BackgroundIndexer.__init__ defaults
DefaultBatchSize == 5

DelaySeconds == 12

\* BackgroundIndexer._stats as __init__ sets it
NoStats == [total_notes |-> 0, indexed_notes |-> 0, pending_notes |-> 0,
            failed_notes |-> 0, last_run |-> FALSE]

\* no reindex_all call has returned yet
NotReindexed == [status |-> "none"]

\* the state BackgroundIndexer.__init__ leaves: no task, nothing scanned
IndexerIdle ==
    /\ batchSize = DefaultBatchSize
    /\ running = FALSE
    /\ ipc = "idle"
    /\ findOutcome = "none"
    /\ pendingNotes = <<>>
    /\ batchStart = 0
    /\ batchPos = 0
    /\ stats = NoStats
    /\ ilog = <<>>
    /\ scans = 0
    /\ reindex = NotReindexed
    /\ stopping = FALSE
    /\ aliveTasks = 0
    /\ loopFailed = FALSE

\* main.py builds the indexer over an empty store and vector collection
IndexerConstructed ==
    /\ store = <<>>
    /\ vectors = {}
    /\ providerUp = TRUE
    /\ IndexerIdle

----------------------------------------------------------------------------
Init ==
    /\ agents = <<>>
    /\ pc = "idle"
    /\ message = [prefix |-> <<>>, tail |-> 0]
    /\ context = NoKeys
    /\ intent = "none"
    /\ llmOutcome = LlmNotCalled
    /\ target = "none"
    /\ dispatchLog = <<>>
    /\ response = NoResponse
    /\ sbRaising = {}
    /\ sbScores = <<>>
    /\ sbResult = "None"
    /\ cohere = FALSE
    /\ vecOut = NotRun
    /\ txtOut = NotRun
    /\ candidates = <<>>
    /\ rerankOut = RerankNotRun
    /\ topCands = <<>>
    /\ loadFailed = {}
    /\ docs = <<>>
    /\ passes = <<>>
    /\ calls = <<>>
    /\ IndexerConstructed
    /\ BotStarted
    /\ VectorClientConstructed

\* MessageDirector.register_agent; the model registers each agent once
RegisterAgent(a) ==
    /\ pc = "idle"
    /\ ~Registered(a)
    /\ agents' = Append(agents, a)
    /\ UNCHANGED <<pc, message, context, intent, llmOutcome, target,
                   dispatchLog, response, sbRaising, sbScores, sbResult>>
    /\ UNCHANGED pipeVars
    /\ UNCHANGED <<idxVars, botVars, vsVars>>

\* MessageDirector.route_message up to the call of the agent's process
RouteMessage(m, ctx, o) ==
    /\ pc = "idle"
    /\ message' = m
    /\ context' = ctx
    /\ LET sticky == StickyResearch(ctx)
           called == ~sticky /\ HeuristicIntent(m) = "ambiguous"
           i      == IF sticky THEN "none" ELSE AnalyzeIntent(m, o)
           t      == RouteTarget(ctx, i)
       IN  /\ intent' = i
           /\ llmOutcome' = IF called THEN o ELSE LlmNotCalled
           /\ calls' = IF called THEN Append(calls, Call("complete", "intent")) ELSE calls
           /\ target' = t
           /\ IF t = "none"
              THEN /\ dispatchLog' = dispatchLog
                   /\ response' = NoAgentsResponse
                   /\ pc' = "done"
              ELSE /\ dispatchLog' = Append(dispatchLog, t)
                   /\ response' = response
                   /\ pc' = "process"
    /\ UNCHANGED <<idxVars, botVars, vsVars>>
    /\ UNCHANGED <<agents, sbRaising, sbScores, sbResult>>
    /\ UNCHANGED <<cohere, vecOut, txtOut, candidates, rerankOut, topCands, loadFailed, docs, passes>>

\* BaseAgent.process as the director sees it: an AgentResponse comes back
AgentProcess ==
    /\ pc = "process"
    /\ \E s \in BOOLEAN :
          response' = [kind |-> "response", success |-> s, by |-> target]
    /\ pc' = "done"
    /\ UNCHANGED <<idxVars, botVars, vsVars>>
    /\ UNCHANGED <<agents, message, context, intent, llmOutcome, target,
                   dispatchLog, sbRaising, sbScores, sbResult>>
    /\ UNCHANGED pipeVars

\* list.sort(key=score, reverse=True): stable, descending
RECURSIVE InsertDesc(_, _)
InsertDesc(x, s) ==
    IF s = <<>> THEN <<x>>
    ELSE IF Head(s).score >= x.score THEN <<Head(s)>> \o InsertDesc(x, Tail(s))
    ELSE <<x>> \o s

RECURSIVE SortDesc(_)
SortDesc(s) ==
    IF s = <<>> THEN <<>>
    ELSE InsertDesc(s[Len(s)], SortDesc(SubSeq(s, 1, Len(s) - 1)))

\* the score select_best_agent records for an agent whose can_handle raised
ScoreOnError == 0

\* PollScores recording full confidence for an agent whose can_handle raised
PollScoresErrorWins(m, ctx, raising) ==
    [i \in 1..Len(agents) |->
        [agent |-> agents[i],
         score |-> IF agents[i] \in raising THEN 100
                   ELSE CanHandle(agents[i], m, ctx)]]

\* the polling loop of select_best_agent; can_handle of the agents in
\* `raising` raises
PollScores(m, ctx, raising) ==
    [i \in 1..Len(agents) |->
        [agent |-> agents[i],
         score |-> IF agents[i] \in raising THEN ScoreOnError
                   ELSE CanHandle(agents[i], m, ctx)]]

\* PickBest without the confidence floor
PickBestNoFloor(sorted) == sorted[1].agent

\* the threshold test of select_best_agent on the best (first) entry
PickBest(sorted) ==
    IF sorted[1].score > ConfidenceFloor THEN sorted[1].agent ELSE "None"

\* MessageDirector.select_best_agent
SelectBestAgent(m, ctx, raising) ==
    /\ pc = "idle"
    /\ raising \subseteq {agents[i] : i \in 1..Len(agents)}
    /\ message' = m
    /\ context' = ctx
    /\ IF agents = <<>>
       THEN /\ sbScores' = <<>>
            /\ sbResult' = "None"
       ELSE LET sorted == SortDesc(PollScores(m, ctx, raising))
            IN  /\ sbScores' = sorted
                /\ sbResult' = PickBest(sorted)
    /\ sbRaising' = raising
    /\ pc' = "selected"
    /\ UNCHANGED <<idxVars, botVars, vsVars>>
    /\ UNCHANGED <<agents, intent, llmOutcome, target, dispatchLog, response>>
    /\ UNCHANGED pipeVars

\* the call has returned; the director is ready for the next one
Return ==
    /\ pc \in {"done", "selected"}
    /\ pc' = "idle"
    /\ message' = [prefix |-> <<>>, tail |-> 0]
    /\ context' = NoKeys
    /\ intent' = "none"
    /\ llmOutcome' = LlmNotCalled
    /\ target' = "none"
    /\ dispatchLog' = <<>>
    /\ response' = NoResponse
    /\ sbRaising' = {}
    /\ sbScores' = <<>>
    /\ sbResult' = "None"
    /\ vecOut' = NotRun
    /\ txtOut' = NotRun
    /\ candidates' = <<>>
    /\ rerankOut' = RerankNotRun
    /\ topCands' = <<>>
    /\ loadFailed' = {}
    /\ docs' = <<>>
    /\ passes' = <<>>
    /\ calls' = <<>>
    /\ UNCHANGED <<idxVars, botVars, vsVars>>
    /\ UNCHANGED <<agents, cohere>>

\* the calls a caller of the director can make
Register == \E a \in AgentNames : RegisterAgent(a)

Route ==
    /\ pc = "idle"
    /\ \E m \in Messages, ctx \in Contexts, o \in LlmOutcomes : RouteMessage(m, ctx, o)

SelectBest ==
    /\ pc = "idle"
    /\ \E m \in Messages, ctx \in Contexts, r \in SUBSET AgentNames :
          SelectBestAgent(m, ctx, r)

NextRouter ==
    \/ Register
    \/ Route
    \/ AgentProcess
    \/ SelectBest
    \/ Return

SpecRouter == Init /\ [][NextRouter]_vars

----------------------------------------------------------------------------
(* The Telegram handlers of bot.py that carry research mode.  The
   application processes one update at a time, so a handler runs from its
   start to its end before the next update is taken.  Only the admin's
   updates are modelled; the handlers return at once for anybody else.
   botHist records, for the properties, whether the research button was
   pressed since the last text message was handled (sinceHandled), whether
   it was pressed since the last routed exchange ended (sinceRouted), and
   what the handler did with the last text message. *)

\* setup_bot: the agents are built and registered, or building them failed
\* and the bot runs without a director
InitBot ==
    /\ directorUp \in BOOLEAN
    /\ agents = IF directorUp THEN <<"note_taker", "qa", "research">> ELSE <<>>
    /\ pc = "idle"
    /\ message = [prefix |-> <<>>, tail |-> 0]
    /\ context = NoKeys
    /\ intent = "none"
    /\ llmOutcome = LlmNotCalled
    /\ target = "none"
    /\ dispatchLog = <<>>
    /\ response = NoResponse
    /\ sbRaising = {}
    /\ sbScores = <<>>
    /\ sbResult = "None"
    /\ cohere = FALSE
    /\ vecOut = NotRun
    /\ txtOut = NotRun
    /\ candidates = <<>>
    /\ rerankOut = RerankNotRun
    /\ topCands = <<>>
    /\ loadFailed = {}
    /\ docs = <<>>
    /\ passes = <<>>
    /\ calls = <<>>
    /\ IndexerConstructed
    /\ userData = NoKeys
    /\ prevTarget = "none"
    /\ botHist = NoHistory
    /\ VectorClientConstructed

\* context.user_data.get('awaiting_research', False)
AwaitingResearch == Get(userData, "awaiting_research", FALSE)

\* the user_context dict handle_text_message builds
UserContext == [k \in {"awaiting_research"} |-> AwaitingResearch]

\* button_callback with query.data == "research"
BotArm ==
    /\ pc = "idle"
    /\ userData' = [k \in {"awaiting_research"} |-> TRUE]
    /\ botHist' = [botHist EXCEPT !.sinceHandled = TRUE, !.sinceRouted = TRUE]
    /\ UNCHANGED <<prevTarget, directorUp>>
    /\ UNCHANGED <<routerVars, pipeVars, idxVars, vsVars>>

\* the handler has dealt with a text message without routing it
Unrouted(how) ==
    /\ botHist' = [botHist EXCEPT !.sinceHandled = FALSE, !.last = how]
    /\ prevTarget' = "none"
    /\ UNCHANGED <<userData, directorUp>>
    /\ UNCHANGED <<routerVars, pipeVars, idxVars, vsVars>>

\* handle_text_message on a text that starts with "/": it returns
BotIgnoresCommand(m) ==
    /\ pc = "idle"
    /\ StartsWith(Text(m), <<"/">>)
    /\ Unrouted("ignored")

\* handle_text_message without a director: save_quick_note
BotBasicNote(m) ==
    /\ pc = "idle"
    /\ ~StartsWith(Text(m), <<"/">>)
    /\ ~directorUp
    /\ Unrouted("basic")

\* handle_text_message when send_action("typing") raises: the except branch
\* replies with the error
BotTypingFails(m) ==
    /\ pc = "idle"
    /\ ~StartsWith(Text(m), <<"/">>)
    /\ directorUp
    /\ Unrouted("typing_failed")

\* handle_text_message up to the agent's process inside route_message
BotRoutes(m, o) ==
    /\ ~StartsWith(Text(m), <<"/">>)
    /\ directorUp
    /\ RouteMessage(m, UserContext, o)

\* BotReply leaving user_data as it is
BotReplyKeepsFlag ==
    /\ pc = "done"
    /\ userData' = userData
    /\ botHist' = [sinceHandled |-> FALSE, sinceRouted |-> FALSE, last |-> "routed"]
    /\ prevTarget' = target
    /\ pc' = "idle"
    /\ message' = [prefix |-> <<>>, tail |-> 0]
    /\ context' = NoKeys
    /\ intent' = "none"
    /\ llmOutcome' = LlmNotCalled
    /\ target' = "none"
    /\ dispatchLog' = <<>>
    /\ response' = NoResponse
    /\ calls' = <<>>
    /\ UNCHANGED <<agents, sbRaising, sbScores, sbResult, directorUp>>
    /\ UNCHANGED <<cohere, vecOut, txtOut, candidates, rerankOut, topCands, loadFailed, docs, passes>>
    /\ UNCHANGED <<idxVars, vsVars>>

\* handle_text_message after route_message has returned: the flag is
\* cleared if it is set and the response is sent
BotReply ==
    /\ pc = "done"
    /\ userData' = IF AwaitingResearch
                   THEN [k \in {"awaiting_research"} |-> FALSE]
                   ELSE userData
    /\ botHist' = [sinceHandled |-> FALSE, sinceRouted |-> FALSE, last |-> "routed"]
    /\ prevTarget' = target
    /\ pc' = "idle"
    /\ message' = [prefix |-> <<>>, tail |-> 0]
    /\ context' = NoKeys
    /\ intent' = "none"
    /\ llmOutcome' = LlmNotCalled
    /\ target' = "none"
    /\ dispatchLog' = <<>>
    /\ response' = NoResponse
    /\ calls' = <<>>
    /\ UNCHANGED <<agents, sbRaising, sbScores, sbResult, directorUp>>
    /\ UNCHANGED <<cohere, vecOut, txtOut, candidates, rerankOut, topCands, loadFailed, docs, passes>>
    /\ UNCHANGED <<idxVars, vsVars>>

BotIgnores == \E m \in Messages : BotIgnoresCommand(m)

BotBasic == \E m \in Messages : BotBasicNote(m)

BotTyping == \E m \in Messages : BotTypingFails(m)

BotRoute == \E m \in Messages, o \in LlmOutcomes : BotRoutes(m, o)

NextBot ==
    \/ BotArm
    \/ BotIgnores
    \/ BotBasic
    \/ BotTyping
    \/ BotRoute
    \/ AgentProcess
    \/ BotReply

SpecBot == InitBot /\ [][NextBot]_vars

----------------------------------------------------------------------------
(* The three agents bot.py registers, with the external services they call.
   Every external call either returns or raises; the outcome is chosen
   where the call is made. *)

MaxDocs == 2
MaxHits == 2

QALimit == 50
QATopK == 10
ResearchLimit == 100
ResearchTopK == 30
SubSearchLimit == 30
VectorThreshold == 30
TextScore == 70
PassDocs == 15
ReportSources == 10

Min(a, b) == IF a < b THEN a ELSE b

\* s[:n]
Truncate(s, n) == SubSeq(s, 1, Min(n, Len(s)))

\* the notes of the vault
DocIds == 1..MaxDocs

\* a result list filled to the sub-limit, made of further notes
FullPage(first) == [i \in 1..SubSearchLimit |-> first + i]

\* the notes search_similar returns when the query has many neighbours
ManyVectorHits == FullPage(MaxDocs)

\* the notes search_documents returns when the query matches many notes,
\* none of them among ManyVectorHits
ManyTextHits == FullPage(MaxDocs + SubSearchLimit)

Range(s) == {s[i] : i \in 1..Len(s)}

\* the similarity of a note to the query, above the score threshold
VecScore(d) == IF d \in DocIds THEN 100 - 10 * d ELSE VectorThreshold

\* the summary stored in the payload of a note's point; '' for some notes
PayloadSummary(d) == d % 2 = 1

\* what search_similar can return: at most `limit` hits that reach the score
\* threshold, best score first;
\* two points can carry the same note_id
VectorHitLists ==
    {h \in SeqsUpTo(DocIds, Min(MaxHits, SubSearchLimit)) :
        /\ \A i \in 1..Len(h) : VecScore(h[i]) >= VectorThreshold
        /\ \A i \in 1..Len(h) - 1 : VecScore(h[i]) >= VecScore(h[i + 1])}
    \cup {ManyVectorHits}

\* what search_documents can return: at most `limit` documents, each with
\* its own _id
TextHitLists ==
    {h \in SeqsUpTo(DocIds, Min(MaxHits, SubSearchLimit)) :
        \A i, j \in 1..Len(h) : i # j => h[i] # h[j]}
    \cup {ManyTextHits, ManyVectorHits}

\* the vector sub-search: embed_text raises, search_similar raises, or hits
VectorOutcomes ==
    {[status |-> "embed_raised", hits |-> <<>>],
     [status |-> "search_raised", hits |-> <<>>]}
    \cup {[status |-> "ok", hits |-> h] : h \in VectorHitLists}

\* the full-text sub-search: search_documents raises, or documents
TextOutcomes ==
    {[status |-> "raised", hits |-> <<>>]}
    \cup {[status |-> "ok", hits |-> h] : h \in TextHitLists}

\* the candidates the vector block of _stage2_hybrid_search adds
VectorCandidates(v) ==
    IF v.status = "ok"
    THEN [i \in 1..Len(v.hits) |->
            [note_id |-> v.hits[i], search_source |-> "vector",
             search_score |-> VecScore(v.hits[i]),
             summary |-> PayloadSummary(v.hits[i])]]
    ELSE <<>>

\* MergeText with a failure of the full-text search discarding what the
\* vector search found
MergeTextAllOrNothing(cands, t) ==
    IF t.status = "ok"
    THEN LET existing_ids == {cands[i].note_id : i \in 1..Len(cands)}
             Fresh(d) == d \notin existing_ids
             fresh == SelectSeq(t.hits, Fresh)
         IN  cands \o [i \in 1..Len(fresh) |->
                         [note_id |-> fresh[i], search_source |-> "fulltext",
                          search_score |-> TextScore, summary |-> TRUE]]
    ELSE <<>>

\* the full-text block of _stage2_hybrid_search: documents whose id is not
\* among the candidates collected before the loop are appended
MergeText(cands, t) ==
    IF t.status = "ok"
    THEN LET existing_ids == {cands[i].note_id : i \in 1..Len(cands)}
             Fresh(d) == d \notin existing_ids
             fresh == SelectSeq(t.hits, Fresh)
         IN  cands \o [i \in 1..Len(fresh) |->
                         [note_id |-> fresh[i], search_source |-> "fulltext",
                          search_score |-> TextScore, summary |-> TRUE]]
    ELSE cands

\* Stage2HybridSearch returning the merged list whole
Stage2NoTruncate(v, t, limit) == MergeText(VectorCandidates(v), t)

\* QAAgent._stage2_hybrid_search, inherited by ResearchAgent
Stage2HybridSearch(v, t, limit) == Truncate(MergeText(VectorCandidates(v), t), limit)

\* the external calls of _stage2_hybrid_search, in order
Stage2Calls(v) ==
    <<Call("embed_text", "query")>>
    \o (IF v.status = "embed_raised" THEN <<>> ELSE <<Call("search_similar", "query")>>)
    \o <<Call("search_documents", "query")>>

\* the sets of notes whose get_document raises during one call
LoadFailures ==
    {small \cup many : small \in SUBSET DocIds,
                       many \in {{}, Range(ManyVectorHits) \cup Range(ManyTextHits)}}

Identity(k) == [i \in 1..k |-> i]

Reversed(n, k) == [i \in 1..k |-> n + 1 - i]

RerankNotCalled == [status |-> "not_called", order |-> <<>>]

\* cohere_client.rerank over n documents with top_n = k: it raises, or
\* returns k results, each naming one of the documents
RerankOutcomes(n, k) ==
    {[status |-> "raised", order |-> <<>>]}
    \cup {[status |-> "ok", order |-> o] : o \in {Identity(k), Reversed(n, k)}}

\* the outcomes of the rerank step: the reranker is called only when it is
\* configured and there are documents
RerankStep(n, k) == IF cohere /\ n > 0 THEN RerankOutcomes(n, k) ELSE {RerankNotCalled}

\* reranked_indices of _stage3_rerank_and_analyze (1-based here)
QARerankedIndices(n, top_k, r) ==
    IF r.status = "ok" THEN r.order ELSE Identity(Min(top_k, n))

\* reranked_indices of _rerank_and_load (1-based here)
ResearchRerankedIndices(n, top_k, r) ==
    IF r.status = "ok" THEN r.order
    ELSE IF r.status = "raised" THEN Identity(Min(top_k, n))
    ELSE Identity(n)

\* Retain taking every index the rerank step produced
RetainAll(cands, indices, top_k) == [i \in 1..Len(indices) |-> cands[indices[i]]]

\* [candidates[i] for i in reranked_indices[:top_k]]
Retain(cands, indices, top_k) ==
    LET idx == Truncate(indices, top_k)
    IN  [i \in 1..Len(idx) |-> cands[idx[i]]]

\* LoadDocs keeping an entry for a candidate whose get_document raised
LoadDocsKeepFailed(top, missing) == [i \in 1..Len(top) |-> [path |-> top[i].note_id]]

\* the loading loop: a candidate whose get_document raises is skipped
LoadDocs(top, missing) ==
    LET Loaded(c) == c.note_id \notin missing
        kept == SelectSeq(top, Loaded)
    IN  [i \in 1..Len(kept) |-> [path |-> kept[i].note_id]]

\* the get_document calls of a loop over cands
GetCalls(cands) == [i \in 1..Len(cands) |-> Call("get_document", cands[i].note_id)]

\* the preparation loop of _stage3_rerank_and_analyze fetches the document
\* of every candidate without a summary
NoSummary(c) == ~c.summary

PrepCalls(cands) == GetCalls(SelectSeq(cands, NoSummary))

\* the note_id of each candidate
Ids(cands) == [i \in 1..Len(cands) |-> cands[i].note_id]

Paths(ds) == [i \in 1..Len(ds) |-> ds[i].path]

Response(by, success, text, meta) ==
    [kind |-> "response", success |-> success, by |-> by, text |-> text, meta |-> meta]

\* an exception leaving a function
Raised(by) == [kind |-> "raised", success |-> FALSE, by |-> by, text |-> "exception", meta |-> NoKeys]

\* SmartNoteTaker.process without its try/except
NoteTakerNoOuterExcept(r) == r

\* the try/except around the body of SmartNoteTaker.process
NoteTakerOuterExcept(r) ==
    IF r.kind = "raised" THEN Response("note_taker", FALSE, "save_failed", NoKeys) ELSE r

\* the try/except around the body of QAAgent.process
QAOuterExcept(r) ==
    IF r.kind = "raised" THEN Response("qa", FALSE, "search_failed", NoKeys) ELSE r

\* the try/except around the body of ResearchAgent.process
ResearchOuterExcept(r) ==
    IF r.kind = "raised" THEN Response("research", FALSE, "research_failed", NoKeys) ELSE r

\* the body of SmartNoteTaker.process: only create_document is called
\* outside a try block of its own
NoteTakerBody(createOk) ==
    IF createOk THEN Response("note_taker", TRUE, "saved", [note_id |-> "new"])
    ELSE Raised("note_taker")

\* the external calls of SmartNoteTaker.process, in order
NoteTakerCalls(metaCalled, createOk, embedOk) ==
    <<Call("get_all_documents", "folders")>>
    \o (IF metaCalled THEN <<Call("complete_json", "metadata")>> ELSE <<>>)
    \o <<Call("create_document", "new")>>
    \o (IF createOk THEN <<Call("embed_text", "note")>> ELSE <<>>)
    \o (IF createOk /\ embedOk THEN <<Call("upsert_note", "new")>> ELSE <<>>)

\* _generate_answer: the completion raising yields the failure sentence
GenerateAnswer(answerOk) == IF answerOk THEN "answer" ELSE "answer_failed"

\* the return statements of _stage3_rerank_and_analyze
Stage3Response(cands, top, ds, answerOk) ==
    IF ds = <<>>
    THEN Response("qa", TRUE, "not_loaded", [found_count |-> Len(cands)])
    ELSE Response("qa", TRUE, GenerateAnswer(answerOk),
                  [found_count |-> Len(cands), reranked_count |-> Len(top),
                   sources |-> Paths(ds)])

\* _format_research_report: the sections of the report
FormatResearchReport(overview, connections, synthesis) ==
    [overview |-> overview, connections |-> connections, synthesis |-> synthesis]

\* a research pass: the completion raising yields the pass's placeholder
PassText(ok) == IF ok THEN "text" ELSE "placeholder"

----------------------------------------------------------------------------
\* bot.py: the three agents are registered before any message arrives
InitPipeline ==
    /\ agents = <<"note_taker", "qa", "research">>
    /\ pc = "idle"
    /\ message = [prefix |-> <<>>, tail |-> 0]
    /\ context = NoKeys
    /\ intent = "none"
    /\ llmOutcome = LlmNotCalled
    /\ target = "none"
    /\ dispatchLog = <<>>
    /\ response = NoResponse
    /\ sbRaising = {}
    /\ sbScores = <<>>
    /\ sbResult = "None"
    /\ cohere \in BOOLEAN
    /\ vecOut = NotRun
    /\ txtOut = NotRun
    /\ candidates = <<>>
    /\ rerankOut = RerankNotRun
    /\ topCands = <<>>
    /\ loadFailed = {}
    /\ docs = <<>>
    /\ passes = <<>>
    /\ calls = <<>>
    /\ IndexerConstructed
    /\ BotStarted
    /\ VectorClientConstructed

\* the messages sent through the agents: a question, a short note and a
\* long message the heuristics cannot classify
PipelineMessages ==
    {[prefix |-> <<"note", "?">>, tail |-> 0],
     [prefix |-> <<"note">>, tail |-> 0],
     [prefix |-> <<"note">>, tail |-> WordThreshold - 1]}

\* the context handle_text_message builds: awaiting_research is always set
PipelineContexts == [{"awaiting_research"} -> BOOLEAN]

\* SmartNoteTaker.process
NoteTakerProcess ==
    /\ pc = "process"
    /\ target = "note_taker"
    /\ \E metaCalled, createOk, embedOk \in BOOLEAN :
          /\ response' = NoteTakerOuterExcept(NoteTakerBody(createOk))
          /\ calls' = calls \o NoteTakerCalls(metaCalled, createOk, embedOk)
    /\ pc' = "done"
    /\ UNCHANGED <<idxVars, botVars, vsVars>>
    /\ UNCHANGED <<agents, message, context, intent, llmOutcome, target,
                   dispatchLog, sbRaising, sbScores, sbResult>>
    /\ UNCHANGED <<cohere, vecOut, txtOut, candidates, rerankOut, topCands, loadFailed, docs, passes>>

\* Stage2 going on to the next stage with an empty candidate list
Stage2NoEmptyTest(agent, limit, emptyText, nextPc) ==
    /\ \E v \in VectorOutcomes, t \in TextOutcomes :
          /\ vecOut' = v
          /\ txtOut' = t
          /\ candidates' = Stage2HybridSearch(v, t, limit)
          /\ calls' = calls \o Stage2Calls(v)
          /\ response' = response
          /\ pc' = nextPc
    /\ UNCHANGED <<idxVars, botVars, vsVars>>
    /\ UNCHANGED <<agents, message, context, intent, llmOutcome, target,
                   dispatchLog, sbRaising, sbScores, sbResult>>
    /\ UNCHANGED <<cohere, rerankOut, topCands, loadFailed, docs, passes>>

\* _stage2_hybrid_search as called by `agent` with `limit`, and the test of
\* its result in process
Stage2(agent, limit, emptyText, nextPc) ==
    /\ \E v \in VectorOutcomes, t \in TextOutcomes :
          LET cands == Stage2HybridSearch(v, t, limit)
          IN  /\ vecOut' = v
              /\ txtOut' = t
              /\ candidates' = cands
              /\ calls' = calls \o Stage2Calls(v)
              /\ IF cands = <<>>
                 THEN /\ response' = Response(agent, TRUE, emptyText, [found_count |-> 0])
                      /\ pc' = "done"
                 ELSE /\ response' = response
                      /\ pc' = nextPc
    /\ UNCHANGED <<idxVars, botVars, vsVars>>
    /\ UNCHANGED <<agents, message, context, intent, llmOutcome, target,
                   dispatchLog, sbRaising, sbScores, sbResult>>
    /\ UNCHANGED <<cohere, rerankOut, topCands, loadFailed, docs, passes>>

\* QAAgent.process up to the call of stage 3
QAStage2 ==
    /\ pc = "process"
    /\ target = "qa"
    /\ Stage2("qa", QALimit, "no_notes", "qa_stage3")

\* QAAgent._stage3_rerank_and_analyze
QAStage3 ==
    /\ pc = "qa_stage3"
    /\ LET n == Len(candidates)
       IN  \E r \in RerankStep(n, Min(QATopK, n)), missing \in LoadFailures,
              answerOk \in BOOLEAN :
              LET top == Retain(candidates, QARerankedIndices(n, QATopK, r), QATopK)
                  ds  == LoadDocs(top, missing)
              IN  /\ ds = <<>> => answerOk
                  /\ rerankOut' = r
                  /\ topCands' = top
                  /\ loadFailed' = missing \cap Range(Ids(top))
                  /\ docs' = ds
                  /\ calls' = calls \o PrepCalls(candidates)
                                \o (IF r.status = "not_called" THEN <<>>
                                    ELSE <<Call("rerank", "query")>>)
                                \o GetCalls(top)
                                \o (IF ds = <<>> THEN <<>>
                                    ELSE <<Call("complete", "answer")>>)
                  /\ response' = QAOuterExcept(Stage3Response(candidates, top, ds, answerOk))
    /\ pc' = "done"
    /\ UNCHANGED <<idxVars, botVars, vsVars>>
    /\ UNCHANGED <<agents, message, context, intent, llmOutcome, target,
                   dispatchLog, sbRaising, sbScores, sbResult>>
    /\ UNCHANGED <<cohere, vecOut, txtOut, candidates, passes>>

\* ResStage2 answering an empty candidate list as the Q&A agent does
ResStage2AsQuestion ==
    /\ pc = "process"
    /\ target = "research"
    /\ Stage2("research", ResearchLimit, "no_notes", "res_load")

\* ResearchAgent.process up to the call of _rerank_and_load
ResStage2 ==
    /\ pc = "process"
    /\ target = "research"
    /\ Stage2("research", ResearchLimit, "no_material", "res_load")

\* ResearchAgent._rerank_and_load and the test of its result in process
ResRerankAndLoad ==
    /\ pc = "res_load"
    /\ LET n == Len(candidates)
       IN  \E r \in RerankStep(n, Min(ResearchTopK, n)), missing \in LoadFailures :
              LET top == Retain(candidates, ResearchRerankedIndices(n, ResearchTopK, r),
                                ResearchTopK)
                  ds  == LoadDocs(top, missing)
              IN  /\ rerankOut' = r
                  /\ topCands' = top
                  /\ loadFailed' = missing \cap Range(Ids(top))
                  /\ docs' = ds
                  /\ calls' = calls \o (IF r.status = "not_called" THEN <<>>
                                        ELSE <<Call("rerank", "query")>>)
                                \o GetCalls(top)
                  /\ IF ds = <<>>
                     THEN /\ response' = Response("research", TRUE, "not_processed",
                                                  [found_count |-> Len(candidates)])
                          /\ pc' = "done"
                     ELSE /\ response' = response
                          /\ pc' = "res_pass1"
    /\ UNCHANGED <<idxVars, botVars, vsVars>>
    /\ UNCHANGED <<agents, message, context, intent, llmOutcome, target,
                   dispatchLog, sbRaising, sbScores, sbResult>>
    /\ UNCHANGED <<cohere, vecOut, txtOut, candidates, passes>>

\* a pass of _multi_pass_analysis: the prompt is built from `inDocs` and
\* `inTexts`, and one completion call is made, which may raise
ResPass(name, inDocs, inTexts, nextPc) ==
    /\ \E ok \in BOOLEAN :
          passes' = Append(passes, [name |-> name, docs |-> inDocs,
                                    texts |-> inTexts, text |-> PassText(ok)])
    /\ calls' = Append(calls, Call("complete", name))
    /\ pc' = nextPc
    /\ UNCHANGED <<idxVars, botVars, vsVars>>
    /\ UNCHANGED <<agents, message, context, intent, llmOutcome, target,
                   dispatchLog, response, sbRaising, sbScores, sbResult>>
    /\ UNCHANGED <<cohere, docs>>

\* ResearchAgent._pass1_overview, the first step of _multi_pass_analysis;
\* what stages 2 and 3 worked on is not passed on to the analysis
ResPass1 ==
    /\ pc = "res_pass1"
    /\ ResPass("overview", Truncate(Paths(docs), PassDocs), <<>>, "res_pass2")
    /\ vecOut' = NotRun
    /\ txtOut' = NotRun
    /\ candidates' = <<>>
    /\ rerankOut' = RerankNotRun
    /\ topCands' = <<>>
    /\ loadFailed' = {}

\* ResearchAgent._pass2_connections
ResPass2 ==
    /\ pc = "res_pass2"
    /\ ResPass("connections", Truncate(Paths(docs), PassDocs), <<>>, "res_pass3")
    /\ UNCHANGED <<vecOut, txtOut, candidates, rerankOut, topCands, loadFailed>>

\* ResPass3 building its prompt from the documents as passes 1 and 2 do
ResPass3WithDocuments ==
    /\ pc = "res_pass3"
    /\ ResPass("synthesis", Truncate(Paths(docs), PassDocs),
               <<passes[1].text, passes[2].text>>, "res_report")
    /\ UNCHANGED <<vecOut, txtOut, candidates, rerankOut, topCands, loadFailed>>

\* ResearchAgent._pass3_synthesis
ResPass3 ==
    /\ pc = "res_pass3"
    /\ ResPass("synthesis", <<>>, <<passes[1].text, passes[2].text>>, "res_report")
    /\ UNCHANGED <<vecOut, txtOut, candidates, rerankOut, topCands, loadFailed>>

\* the end of _multi_pass_analysis: the report is formatted and returned
ResReport ==
    /\ pc = "res_report"
    /\ response' = ResearchOuterExcept(
                       [kind |-> "response", success |-> TRUE, by |-> "research",
                        text |-> "report",
                        sections |-> FormatResearchReport(passes[1].text, passes[2].text,
                                                          passes[3].text),
                        meta |-> [documents_analyzed |-> Len(docs),
                                  sources |-> Truncate(Paths(docs), ReportSources)]])
    /\ pc' = "done"
    /\ UNCHANGED <<idxVars, botVars, vsVars>>
    /\ UNCHANGED <<agents, message, context, intent, llmOutcome, target,
                   dispatchLog, sbRaising, sbScores, sbResult>>
    /\ UNCHANGED pipeVars

\* bot.py: a text message is handed to route_message
RoutePipeline ==
    /\ pc = "idle"
    /\ \E m \in PipelineMessages, ctx \in PipelineContexts, o \in LlmOutcomes :
          RouteMessage(m, ctx, o)

NextPipeline ==
    \/ RoutePipeline
    \/ NoteTakerProcess
    \/ QAStage2
    \/ QAStage3
    \/ ResStage2
    \/ ResRerankAndLoad
    \/ ResPass1
    \/ ResPass2
    \/ ResPass3
    \/ ResReport
    \/ Return

SpecPipeline == InitPipeline /\ [][NextPipeline]_vars

\* route_message is awaited to its end, and every external call it makes
\* returns or raises: a call that has started keeps taking steps
SpecPipelineFair == SpecPipeline /\ WF_vars(NextPipeline)

----------------------------------------------------------------------------
(* Properties of the director, checked under SpecRouter *)

Armed == Get(context, "awaiting_research", FALSE)

Routed == pc \in {"process", "done"}

\* C1, sticky mode: when the context carries awaiting_research = true and an
\* agent named research is registered, route_message invokes that agent's
\* process, exactly once, and no other agent's, whatever the message is, and
\* _analyze_intent does not run (so no completion call is made).
C1_StickyResearch ==
    (Routed /\ Armed /\ Registered("research")) =>
        /\ target = "research"
        /\ dispatchLog = <<"research">>
        /\ intent = "none"
        /\ llmOutcome = LlmNotCalled

\* a message with a question mark, sent with the mode armed, went to research
C1_Witness ==
    /\ pc = "done"
    /\ Armed
    /\ dispatchLog = <<"research">>
    /\ Contains(Text(message), "?")
    /\ Len(agents) = 3

\* the messages C2 is about: a question mark anywhere, or an interrogative
\* the director recognises at the start
QuestionLike(m) ==
    \/ Contains(Text(m), "?")
    \/ \E q \in IntentQuestionWords : StartsWith(Lower(Text(m)), <<q>>)

\* C2 as stated: with research mode not armed and qa registered, every
\* message with a question mark or a leading interrogative is dispatched
\* to qa, and the completion call is not made.
C2_Original ==
    (Routed /\ ~Armed /\ Registered("qa") /\ QuestionLike(message)) =>
        /\ target = "qa"
        /\ dispatchLog = <<"qa">>
        /\ llmOutcome = LlmNotCalled

\* C2, amended: with research mode not armed and qa registered, every
\* message that does not start with "/" (leading whitespace aside) and that
\* has a question mark or a leading interrogative is dispatched to qa, and
\* the completion call is not made.
C2_QuestionsToQA ==
    (/\ Routed
     /\ ~Armed
     /\ Registered("qa")
     /\ QuestionLike(message)
     /\ ~StartsWith(Strip(Text(message)), <<"/">>)) =>
        /\ target = "qa"
        /\ dispatchLog = <<"qa">>
        /\ llmOutcome = LlmNotCalled

\* a long message opening with an interrogative and holding no question
\* mark went to qa
C2_Witness ==
    /\ pc = "done"
    /\ ~Armed
    /\ target = "qa"
    /\ ~Contains(Text(message), "?")
    /\ WordCount(Text(message)) >= WordThreshold

\* C3: with the note taker the only registered agent and research mode not
\* armed, every message is dispatched to the note taker, whatever the
\* completion call of the classifier does (any reply, or an error).
C3_OnlyNoteTaker ==
    (Routed /\ ~Armed /\ agents = <<"note_taker">>) =>
        /\ target = "note_taker"
        /\ dispatchLog = <<"note_taker">>

\* the classifier was asked, answered "question", and the note taker got
\* the message
C3_Witness ==
    /\ pc = "done"
    /\ agents = <<"note_taker">>
    /\ ~Armed
    /\ llmOutcome.status = "replied"
    /\ StripLower(llmOutcome) = "question"
    /\ intent = "question"
    /\ dispatchLog = <<"note_taker">>

\* C4: with no agent registered, route_message returns a response with
\* success = false, for every message and context, and invokes no agent.
C4_NoAgents ==
    (agents = <<>> /\ Routed) =>
        /\ pc = "done"
        /\ response.kind = "response"
        /\ ~response.success
        /\ dispatchLog = <<>>
        /\ target = "none"

\* the static failure was returned to an armed call with a question
C4_Witness ==
    /\ agents = <<>>
    /\ pc = "done"
    /\ Armed
    /\ Contains(Text(message), "?")
    /\ response.kind = "response"

\* the score can_handle gives, 0 standing for a call that raised
EffectiveScore(a) ==
    IF a \in sbRaising THEN 0 ELSE CanHandle(a, message, context)

\* C5: select_best_agent never returns an agent whose confidence is at most
\* 0.3; the agent it returns has the highest score of the registered
\* agents; with no agent registered it returns None.
C5_SelectBest ==
    pc = "selected" =>
        /\ sbResult # "None" =>
              /\ Registered(sbResult)
              /\ sbResult \notin sbRaising
              /\ CanHandle(sbResult, message, context) > ConfidenceFloor
              /\ \A i \in 1..Len(agents) :
                    EffectiveScore(agents[i]) <= CanHandle(sbResult, message, context)
        /\ agents = <<>> => sbResult = "None"

\* three agents answered and one of them was selected
C5_Witness ==
    /\ pc = "selected"
    /\ Len(agents) = 3
    /\ sbRaising = {}
    /\ sbResult # "None"

\* the registered agents whose effective score is the highest
BestAgents ==
    {a \in {agents[i] : i \in 1..Len(agents)} :
        \A i \in 1..Len(agents) : EffectiveScore(agents[i]) <= EffectiveScore(a)}

\* C6: an agent whose can_handle raises is scored 0.0 and is not selected;
\* every registered agent is still polled, and the result is the one that
\* agent returning 0.0 would give.
C6_ScoringErrorIsolated ==
    pc = "selected" =>
        /\ Len(sbScores) = Len(agents)
        /\ \A i \in 1..Len(agents) : \E j \in 1..Len(sbScores) :
              /\ sbScores[j].agent = agents[i]
              /\ sbScores[j].score = EffectiveScore(agents[i])
        /\ sbResult \notin sbRaising
        /\ IF \E a \in BestAgents : EffectiveScore(a) > ConfidenceFloor
           THEN sbResult \in BestAgents
           ELSE sbResult = "None"

\* the Q&A agent raised on a question and the note taker was selected
C6_Witness ==
    /\ pc = "selected"
    /\ Len(agents) = 3
    /\ sbRaising = {"qa"}
    /\ IsQuestion(message)
    /\ sbResult = "note_taker"

----------------------------------------------------------------------------
(* Properties of the agents, checked under SpecPipeline *)

\* C7, no escaping exception: with the note taker, the Q&A agent and the
\* research agent registered, every call of route_message ends, and it ends
\* with an AgentResponse; no exception leaves it, whichever of the external
\* calls it triggers fail (completion, embedding, vector search, document
\* search / get / create, reranker, metadata extraction).
C7_AlwaysResponds ==
    /\ [](response.kind # "raised")
    /\ [](pc = "done" => response.kind = "response")
    /\ (pc = "process") ~> (pc = "done")

\* the classifier's completion raised, the message went to the note taker,
\* create_document raised there, and a response came back
C7_Witness ==
    /\ pc = "done"
    /\ llmOutcome = LlmRaised
    /\ target = "note_taker"
    /\ response.kind = "response"
    /\ response.text = "save_failed"

\* C8, failures are unsuccessful responses: when the completion call of
\* answer generation fails in question mode, the response the Q&A agent
\* returns carries success = false.
C8_AnswerFailureUnsuccessful ==
    (pc = "done" /\ target = "qa" /\ response.text = "answer_failed") =>
        ~response.success

Occurrences(d) == {i \in 1..Len(candidates) : candidates[i].note_id = d}

InHits(d, out) == out.status = "ok" /\ \E i \in 1..Len(out.hits) : out.hits[i] = d

\* C9, vector wins: when the vector sub-search and the full-text
\* sub-search both return a hit for a document identifier, the candidate
\* list of stage 2 has exactly one entry for it, whose source is 'vector'
\* and whose score is the vector similarity (not the flat 0.7).
C9_VectorWins ==
    \A d \in DocIds :
        (InHits(d, vecOut) /\ InHits(d, txtOut)) =>
            /\ Cardinality(Occurrences(d)) = 1
            /\ \A i \in Occurrences(d) :
                  /\ candidates[i].search_source = "vector"
                  /\ candidates[i].search_score = VecScore(d)

\* C10, identifier uniqueness: whatever the vector index and the document
\* store return, the candidate list of stage 2 never holds two entries with
\* the same document identifier.
C10_UniqueIds ==
    \A i, j \in 1..Len(candidates) :
        i # j => candidates[i].note_id # candidates[j].note_id

\* C11 as stated: the candidate list of stage 2 never has more than 50
\* entries, in question mode and in research mode alike.
C11_Original == Len(candidates) <= QALimit

\* C11, stage 2 size: the candidate list of stage 2 never has more entries
\* than the limit its caller passes, 50 in question mode and 100 in research
\* mode, whatever number of hits each sub-search returns.
C11_WithinLimit ==
    /\ target = "qa" => Len(candidates) <= QALimit
    /\ target = "research" => Len(candidates) <= ResearchLimit

\* question mode, both sub-searches filled their sub-limit with different
\* notes, and the merged list was cut to the limit
C11_Witness ==
    /\ target = "qa"
    /\ vecOut.status = "ok" /\ Len(vecOut.hits) = SubSearchLimit
    /\ txtOut.status = "ok" /\ Len(txtOut.hits) = SubSearchLimit
    /\ Len(candidates) = QALimit

Stage2Done == vecOut.status # "not_run"

VectorFailed == vecOut.status \in {"embed_raised", "search_raised"}

TextFailed == txtOut.status = "raised"

Called(op) == \E i \in 1..Len(calls) : calls[i].op = op

\* C12, sub-search isolation: if the embedding call or the vector search
\* fails, stage 2 still runs the full-text search and returns its hits; if
\* the full-text search fails, stage 2 returns the vector hits; if both
\* fail, stage 2 returns an empty list, nothing is raised, and the agent
\* answers 'nothing found' with success = true.
C12_SubSearchIsolation ==
    Stage2Done =>
        /\ Called("search_documents")
        /\ (VectorFailed /\ ~TextFailed) =>
              /\ Ids(candidates) = txtOut.hits
              /\ \A i \in 1..Len(candidates) : candidates[i].search_source = "fulltext"
        /\ (TextFailed /\ ~VectorFailed) =>
              /\ Ids(candidates) = vecOut.hits
              /\ \A i \in 1..Len(candidates) : candidates[i].search_source = "vector"
        /\ (VectorFailed /\ TextFailed) =>
              /\ candidates = <<>>
              /\ pc = "done"
              /\ response.kind = "response"
              /\ response.success
              /\ response.text \in {"no_notes", "no_material"}
              /\ response.meta.found_count = 0

\* the embedding call raised, the full-text search ran after it and its
\* two hits are the candidates
C12_Witness ==
    /\ vecOut.status = "embed_raised"
    /\ txtOut.status = "ok"
    /\ Len(txtOut.hits) = 2
    /\ Ids(candidates) = txtOut.hits

RerankDone == rerankOut.status # "not_run"

\* the top_k of the agent handling the call
TopK == IF target = "research" THEN ResearchTopK ELSE QATopK

\* C13, stage 3 fallback: when the reranker is not configured or its call
\* fails, the question path and the research path retain exactly the first
\* K candidates of stage 2 in their stage-2 order, K = min(top_k, number of
\* candidates), and nothing is raised; in every case the number of retained
\* candidates is at most min(top_k, number of candidates).
C13_RerankFallback ==
    RerankDone =>
        /\ response.kind # "raised"
        /\ Len(topCands) <= Min(TopK, Len(candidates))
        /\ rerankOut.status \in {"not_called", "raised"} =>
              topCands = SubSeq(candidates, 1, Min(TopK, Len(candidates)))

\* research mode, no reranker, more candidates than top_k: the first
\* top_k are retained
C13_Witness ==
    /\ target = "research"
    /\ rerankOut.status = "not_called"
    /\ Len(candidates) > ResearchTopK
    /\ Len(topCands) = ResearchTopK
    /\ topCands = SubSeq(candidates, 1, ResearchTopK)

IsGet(c) == c.op = "get_document"

\* a completion call made by an agent (the classifier's call is made by the
\* director, before the agent runs)
IsAgentCompletion(c) == c.op = "complete" /\ c.arg # "intent"

NotFailed(d) == d \notin loadFailed

\* C14, content loading: a retained candidate whose document load fails is
\* dropped, and the loading loop fetches every retained candidate once, with
\* no second attempt; the candidates that load keep their relative order;
\* when every load fails the agent returns success = true with a 'found but
\* could not load' text and found_count = the number of stage-2 candidates,
\* and makes no completion call.
C14_ContentLoading ==
    RerankDone =>
        /\ Paths(docs) = SelectSeq(Ids(topCands), NotFailed)
        /\ SelectSeq(calls, IsGet) =
              (IF target = "qa" THEN PrepCalls(candidates) ELSE <<>>) \o GetCalls(topCands)
        /\ docs = <<>> =>
              /\ pc = "done"
              /\ response.kind = "response"
              /\ response.success
              /\ response.text \in {"not_loaded", "not_processed"}
              /\ response.meta.found_count = Len(candidates)
              /\ SelectSeq(calls, IsAgentCompletion) = <<>>

\* question mode: two candidates were retained and the load of each failed
C14_Witness ==
    /\ target = "qa"
    /\ Len(topCands) = 2
    /\ \A i \in 1..Len(topCands) : topCands[i].note_id \in loadFailed
    /\ docs = <<>>
    /\ response.kind = "response"
    /\ response.text = "not_loaded"

\* C15, question mode with no hits: when a question is routed to the Q&A
\* agent and stage 2 returns no candidate, the response has success = true,
\* a 'nothing found' text and found_count = 0, and stage 3 is not entered:
\* no reranker call, no document load, no answer completion.
C15_QuestionNoHits ==
    (target = "qa" /\ Stage2Done /\ candidates = <<>>) =>
        /\ pc = "done"
        /\ response.kind = "response"
        /\ response.success
        /\ response.text = "no_notes"
        /\ response.meta.found_count = 0
        /\ ~RerankDone
        /\ ~Called("rerank")
        /\ ~Called("get_document")
        /\ SelectSeq(calls, IsAgentCompletion) = <<>>

\* a question went to the Q&A agent and both sub-searches returned nothing
C15_Witness ==
    /\ target = "qa"
    /\ intent = "question"
    /\ vecOut = [status |-> "ok", hits |-> <<>>]
    /\ txtOut = [status |-> "ok", hits |-> <<>>]
    /\ pc = "done"
    /\ response.kind = "response"

\* C16, research mode with no hits: when research mode is armed and stage 2
\* returns no candidate, the response signals insufficient material with
\* found_count = 0, and none of the three passes runs: no completion call
\* is made at all.
C16_ResearchNoHits ==
    (Armed /\ Stage2Done /\ candidates = <<>>) =>
        /\ target = "research"
        /\ pc = "done"
        /\ response.kind = "response"
        /\ response.text = "no_material"
        /\ response.meta.found_count = 0
        /\ passes = <<>>
        /\ ~Called("complete")

\* research mode was armed and both sub-searches returned nothing
C16_Witness ==
    /\ Armed
    /\ target = "research"
    /\ vecOut = [status |-> "ok", hits |-> <<>>]
    /\ txtOut = [status |-> "ok", hits |-> <<>>]
    /\ pc = "done"
    /\ response.kind = "response"

ThreePasses ==
    <<Call("complete", "overview"), Call("complete", "connections"),
      Call("complete", "synthesis")>>

\* C17, multi-pass synthesis: whenever at least one document loaded in
\* research mode, exactly three completion calls are made, overview then
\* connections then synthesis, one after the other; the synthesis pass is
\* given the texts of passes 1 and 2 and no document; a failing pass yields
\* its placeholder, the later passes still run, and the report returned has
\* the three sections.
C17_ThreePasses ==
    target = "research" =>
        /\ SelectSeq(calls, IsAgentCompletion) = SubSeq(ThreePasses, 1, Len(passes))
        /\ (pc = "done" /\ docs # <<>>) =>
              /\ Len(passes) = 3
              /\ passes[3].docs = <<>>
              /\ passes[3].texts = <<passes[1].text, passes[2].text>>
              /\ response.kind = "response"
              /\ response.success
              /\ response.text = "report"
              /\ response.sections = [overview |-> passes[1].text,
                                      connections |-> passes[2].text,
                                      synthesis |-> passes[3].text]
        /\ (pc = "done" /\ docs = <<>>) => passes = <<>>

\* the overview pass failed, the two later passes ran and the report came
\* back with the placeholder as its first section
C17_Witness ==
    /\ target = "research"
    /\ pc = "done"
    /\ Len(passes) = 3
    /\ passes[1].text = "placeholder"
    /\ passes[3].text = "text"
    /\ response.kind = "response"
    /\ response.text = "report"
    /\ response.sections.overview = "placeholder"

----------------------------------------------------------------------------
(***************************************************************************)
(* The background indexer (indexer.py) over the document store client of   *)
(* main.py.  A note's content is kept as one of three values: "" for a     *)
(* content of fewer than ten characters, "marked" for a content whose      *)
(* frontmatter carries `ai_indexed:`, "plain" for any other content.       *)
(***************************************************************************)
MaxNotes == 2

MaxScans == 2

ListLimit == 500

PendingCap == 50

Contents == {"", "plain", "marked"}

\* the leaf document create_document stores (note_taker.py, bot.py)
StoredDoc(id, ctime, data) == [id |-> id, ctime |-> ctime, data |-> data]

\* the creation orders of n notes: every note has its own ctime
CtimeOrders(n) == {f \in [1..n -> 1..n] : \A a, b \in 1..n : f[a] = f[b] => a = b}

\* the stores of up to MaxNotes notes, in the order _find lists them
SmallStores ==
    UNION {{[j \in 1..n |-> StoredDoc(j, c[j], d[j])] :
               c \in CtimeOrders(n), d \in [1..n -> Contents]} : n \in 0..MaxNotes}

\* n unindexed notes listed newest first
PlainStore(n) == [j \in 1..n |-> StoredDoc(j, n + 1 - j, "plain")]

\* the store of scenario D, two notes more than a batch, and a store that
\* holds more notes than one scan returns
Stores == SmallStores \cup {PlainStore(DefaultBatchSize + 2), PlainStore(PendingCap + 1)}

BatchSizes == {2, DefaultBatchSize}

\* the stored document with that id
Stored(id) == store[CHOOSE j \in 1..Len(store) : store[j].id = id]

\* CouchDBClient.get_all_documents: a Mango _find that asks for the fields
\* _id, path and mtime only (path repeats _id, mtime is not looked at)
GetAllDocuments(limit) == [j \in 1..Min(Len(store), limit) |-> [id |-> store[j].id]]

\* dict.get(field, default)
DocGet(doc, field, default) == IF field \in DOMAIN doc THEN doc[field] ELSE default

\* 'ai_indexed:' in content
HasMarker(content) == content = "marked"

\* the documents of all_docs that pass the marker test
Unmarked(all) == SelectSeq(all, LAMBDA d : ~HasMarker(DocGet(d, "data", "")))

\* d put behind every element of the sorted list whose key is not larger
InsertByCtime(sorted, d) ==
    LET before == Cardinality({j \in 1..Len(sorted) :
                      DocGet(sorted[j], "ctime", 0) <= DocGet(d, "ctime", 0)})
    IN  SubSeq(sorted, 1, before) \o <<d>> \o SubSeq(sorted, before + 1, Len(sorted))

RECURSIVE SortFirst(_, _)
\* the first n elements of s, sorted
SortFirst(s, n) ==
    IF n = 0 THEN <<>>
    ELSE CHOOSE r \in {InsertByCtime(front, s[n]) : front \in {SortFirst(s, n - 1)}} : TRUE

\* list.sort(key=ctime with default 0): stable, ascending
SortByCtime(s) == SortFirst(s, Len(s))

\* what the two calls of _find_pending_notes can do
FindOutcomes == {"ok", "store_raised", "stats_raised"}

\* the list _find_pending_notes returns
FindPendingNotes(o) ==
    IF o = "ok"
    THEN Truncate(SortByCtime(Unmarked(GetAllDocuments(ListLimit))), PendingCap)
    ELSE <<>>

\* _stats after _find_pending_notes: each entry is written when its line is
\* reached
FindStats(o) ==
    IF o = "store_raised" THEN stats
    ELSE IF o = "stats_raised"
         THEN [stats EXCEPT !.total_notes = Len(GetAllDocuments(ListLimit))]
         ELSE [stats EXCEPT !.total_notes = Len(GetAllDocuments(ListLimit)),
                            !.indexed_notes = Cardinality(vectors),
                            !.pending_notes = Len(Unmarked(GetAllDocuments(ListLimit)))]

\* BatchEnd taking the whole rest of the list as one batch
BatchEndWholeList(i, b, n) == n

\* the end of the slice pending_notes[i:i + batch_size]
BatchEnd(i, b, n) == Min(i + b, n)

\* _index_note: "skipped" at the content test, "indexed" after the upsert,
\* "failed" when embed_text or upsert_note raised
IndexNote(doc, embedOk, upsertOk) ==
    IF DocGet(doc, "data", "") = "" THEN "skipped"
    ELSE IF embedOk /\ upsertOk THEN "indexed" ELSE "failed"

Indexed(id, result) == [op |-> "index", id |-> id, result |-> result]

Slept(seconds) == [op |-> "sleep", seconds |-> seconds]

\* the indexer is built over a store the note taker has written to
InitIndexer ==
    /\ agents = <<"note_taker", "qa", "research">>
    /\ pc = "idle"
    /\ message = [prefix |-> <<>>, tail |-> 0]
    /\ context = NoKeys
    /\ intent = "none"
    /\ llmOutcome = LlmNotCalled
    /\ target = "none"
    /\ dispatchLog = <<>>
    /\ response = NoResponse
    /\ sbRaising = {}
    /\ sbScores = <<>>
    /\ sbResult = "None"
    /\ cohere = FALSE
    /\ vecOut = NotRun
    /\ txtOut = NotRun
    /\ candidates = <<>>
    /\ rerankOut = RerankNotRun
    /\ topCands = <<>>
    /\ loadFailed = {}
    /\ docs = <<>>
    /\ passes = <<>>
    /\ calls = <<>>
    /\ BotStarted
    /\ VectorClientConstructed
    /\ store \in Stores
    /\ vectors \in {{}, {store[j].id : j \in {k \in 1..Len(store) : store[k].data = "marked"}}}
    /\ providerUp \in BOOLEAN
    /\ batchSize \in BatchSizes
    /\ running = FALSE
    /\ ipc = "idle"
    /\ findOutcome = "none"
    /\ pendingNotes = <<>>
    /\ batchStart = 0
    /\ batchPos = 0
    /\ stats = NoStats
    /\ ilog = <<>>
    /\ scans = 0
    /\ reindex = NotReindexed
    /\ stopping = FALSE
    /\ aliveTasks = 0
    /\ loopFailed = FALSE

\* the loop task is suspended in an await: one of the sleeps, the calls of
\* _find_pending_notes, or the calls _index_note makes for a document that
\* has a content (a document without one is skipped with no await)
AtAwait ==
    \/ ipc \in {"warmup", "find", "delay", "sleep"}
    \/ /\ ipc = "batch"
       /\ DocGet(pendingNotes[batchStart + batchPos + 1], "data", "") # ""

\* IdxStart without the test of _running
IdxStartNoGuard ==
    /\ ~stopping
    /\ running' = TRUE
    /\ aliveTasks' = aliveTasks + 1
    /\ loopFailed' = FALSE
    /\ ipc' = "warmup"
    /\ UNCHANGED <<store, vectors, providerUp, batchSize, findOutcome, pendingNotes,
                   batchStart, batchPos, stats, ilog, scans>>
    /\ UNCHANGED <<reindex, stopping>>
    /\ UNCHANGED <<routerVars, pipeVars, botVars, vsVars>>

\* BackgroundIndexer.start, called when no stop call is in progress: it
\* returns at once when _running is set, else sets it and creates the task
IdxStart ==
    /\ ~stopping
    /\ ~running
    /\ running' = TRUE
    /\ aliveTasks' = aliveTasks + 1
    /\ loopFailed' = FALSE
    /\ ipc' = "warmup"
    /\ UNCHANGED <<store, vectors, providerUp, batchSize, findOutcome, pendingNotes,
                   batchStart, batchPos, stats, ilog, scans>>
    /\ UNCHANGED <<reindex, stopping>>
    /\ UNCHANGED <<routerVars, pipeVars, botVars, vsVars>>

\* BackgroundIndexer.stop up to `await self._task`: the flag is cleared and
\* the task, suspended in an await, is cancelled
IdxStop ==
    /\ ~stopping
    /\ running
    /\ AtAwait
    /\ running' = FALSE
    /\ stopping' = TRUE
    /\ UNCHANGED <<store, vectors, providerUp, batchSize, ipc, findOutcome, pendingNotes,
                   batchStart, batchPos, stats, ilog, scans>>
    /\ UNCHANGED <<reindex, aliveTasks, loopFailed>>
    /\ UNCHANGED <<routerVars, pipeVars, botVars, vsVars>>

\* the cancelled task resumes: CancelledError is raised in the await it was
\* suspended in and ends the task, from the warm-up sleep by propagating,
\* from inside the loop through `except CancelledError: break`; raised in
\* get_stats it leaves total_notes written
IdxCancelled ==
    /\ stopping
    /\ aliveTasks > 0
    /\ aliveTasks' = aliveTasks - 1
    /\ ipc' = "idle"
    /\ \/ stats' = stats
       \/ /\ ipc = "find"
          /\ stats' = [stats EXCEPT !.total_notes = Len(GetAllDocuments(ListLimit))]
    /\ UNCHANGED <<store, vectors, providerUp, batchSize, running, findOutcome,
                   pendingNotes, batchStart, batchPos, ilog, scans>>
    /\ UNCHANGED <<reindex, stopping, loopFailed>>
    /\ UNCHANGED <<routerVars, pipeVars, botVars, vsVars>>

\* BackgroundIndexer.stop from `await self._task` on: the task has ended
IdxStopReturn ==
    /\ stopping
    /\ aliveTasks = 0
    /\ stopping' = FALSE
    /\ UNCHANGED <<store, vectors, providerUp, batchSize, running, ipc, findOutcome,
                   pendingNotes, batchStart, batchPos, stats, ilog, scans>>
    /\ UNCHANGED <<reindex, aliveTasks, loopFailed>>
    /\ UNCHANGED <<routerVars, pipeVars, botVars, vsVars>>

\* _indexing_loop: the initial sleep has elapsed
IdxWarmup ==
    /\ ~stopping
    /\ ipc = "warmup"
    /\ ipc' = "find"
    /\ UNCHANGED <<store, vectors, providerUp, batchSize, running, findOutcome,
                   pendingNotes, batchStart, batchPos, stats, ilog, scans>>
    /\ UNCHANGED idxAux
    /\ UNCHANGED <<routerVars, pipeVars, botVars, vsVars>>

\* IdxFind with a failure of discovery ending the loop task
IdxFindFailureEndsLoop ==
    /\ ~stopping
    /\ ipc = "find"
    /\ scans < MaxScans
    /\ \E o \in FindOutcomes :
          \E found \in {FindPendingNotes(o)} :
             /\ findOutcome' = o
             /\ loopFailed' = (loopFailed \/ o # "ok")
             /\ pendingNotes' = found
             /\ stats' = FindStats(o)
             /\ ipc' = IF o # "ok" THEN "idle"
                       ELSE IF found = <<>> THEN "sleep" ELSE "batch"
    /\ batchStart' = 0
    /\ batchPos' = 0
    /\ ilog' = <<>>
    /\ scans' = scans + 1
    /\ UNCHANGED <<store, vectors, providerUp, batchSize, running>>
    /\ UNCHANGED <<reindex, stopping, aliveTasks>>
    /\ UNCHANGED <<routerVars, pipeVars, botVars, vsVars>>

\* _indexing_loop: one call of _find_pending_notes and the test of its result
IdxFind ==
    /\ ~stopping
    /\ ipc = "find"
    /\ scans < MaxScans
    /\ \E o \in FindOutcomes :
          \E found \in {FindPendingNotes(o)} :
             /\ findOutcome' = o
             /\ loopFailed' = (loopFailed \/ o # "ok")
             /\ pendingNotes' = found
             /\ stats' = FindStats(o)
             /\ ipc' = IF found = <<>> THEN "sleep" ELSE "batch"
    /\ batchStart' = 0
    /\ batchPos' = 0
    /\ ilog' = <<>>
    /\ scans' = scans + 1
    /\ UNCHANGED <<store, vectors, providerUp, batchSize, running>>
    /\ UNCHANGED <<reindex, stopping, aliveTasks>>
    /\ UNCHANGED <<routerVars, pipeVars, botVars, vsVars>>

\* _process_batch: the next document of the batch goes through _index_note
IdxIndexNote ==
    /\ ~stopping
    /\ ipc = "batch"
    /\ LET doc == pendingNotes[batchStart + batchPos + 1]
           last == batchStart + batchPos + 1 = BatchEnd(batchStart, batchSize, Len(pendingNotes))
       IN  \E upsertOk \in BOOLEAN :
              LET result == IndexNote(doc, providerUp, upsertOk)
              IN  /\ ilog' = Append(ilog, Indexed(doc.id, result))
                  /\ loopFailed' = (loopFailed \/ result = "failed")
                  /\ vectors' = IF result = "indexed" THEN vectors \cup {doc.id} ELSE vectors
                  /\ stats' = IF result = "indexed"
                              THEN [stats EXCEPT !.indexed_notes = @ + 1]
                              ELSE IF result = "failed"
                                   THEN [stats EXCEPT !.failed_notes = @ + 1]
                                   ELSE stats
                  /\ batchPos' = IF last THEN 0 ELSE batchPos + 1
                  /\ ipc' = IF last THEN "delay" ELSE "batch"
    /\ UNCHANGED <<store, providerUp, batchSize, running, findOutcome, pendingNotes,
                   batchStart, scans>>
    /\ UNCHANGED <<reindex, stopping, aliveTasks>>
    /\ UNCHANGED <<routerVars, pipeVars, botVars, vsVars>>

\* _indexing_loop: the sleep that follows every batch, and the loop test
IdxDelay ==
    /\ ~stopping
    /\ ipc = "delay"
    /\ ilog' = Append(ilog, Slept(DelaySeconds))
    /\ batchStart' = batchStart + batchSize
    /\ IF batchStart + batchSize < Len(pendingNotes)
       THEN /\ ipc' = "batch"
            /\ stats' = stats
       ELSE /\ ipc' = "sleep"
            /\ stats' = [stats EXCEPT !.last_run = TRUE]
    /\ UNCHANGED <<store, vectors, providerUp, batchSize, running, findOutcome,
                   pendingNotes, batchPos, scans>>
    /\ UNCHANGED idxAux
    /\ UNCHANGED <<routerVars, pipeVars, botVars, vsVars>>

\* _indexing_loop: the sleep between two scans has elapsed
IdxLongSleep ==
    /\ ~stopping
    /\ ipc = "sleep"
    /\ ipc' = "find"
    /\ UNCHANGED <<store, vectors, providerUp, batchSize, running, findOutcome,
                   pendingNotes, batchStart, batchPos, stats, ilog, scans>>
    /\ UNCHANGED idxAux
    /\ UNCHANGED <<routerVars, pipeVars, botVars, vsVars>>

\* the results _index_note gives for the documents of `found`, in order
IndexResults(found, embedOk, upsertOk) ==
    [j \in 1..Len(found) |-> IndexNote(found[j], embedOk, upsertOk)]

\* the number of documents reindex_all hands to _index_note: it stops at
\* the first one that raises
Attempted(results) ==
    IF \E j \in 1..Len(results) : results[j] = "failed"
    THEN CHOOSE j \in 1..Len(results) :
             /\ results[j] = "failed"
             /\ \A k \in 1..(j - 1) : results[k] # "failed"
    ELSE Len(results)

\* what reindex_all returns: the count on success, the error otherwise
ReindexReturn(found, results) ==
    IF Attempted(results) = Len(results) /\ (results = <<>> \/ results[Len(results)] # "failed")
    THEN [success |-> TRUE, notes_processed |-> Len(found)]
    ELSE [success |-> FALSE, error |-> "raised"]

\* BackgroundIndexer.reindex_all on the indexer trigger_reindex builds: one
\* discovery, then _index_note for each document with no handler around it
IdxReindexAll ==
    /\ \E o \in FindOutcomes, upsertOk \in BOOLEAN :
          \E found \in {FindPendingNotes(o)} :
             \E results \in {IndexResults(found, providerUp, upsertOk)} :
                \E taken \in {Attempted(results)} :
                   /\ reindex' = [status |-> "returned", outcome |-> o, found |-> found,
                                   log |-> [j \in 1..taken |-> Indexed(found[j].id, results[j])],
                                   failed_notes |-> 0,
                                   returned |-> ReindexReturn(found, results)]
                   /\ vectors' = vectors \cup {found[j].id : j \in {k \in 1..taken : results[k] = "indexed"}}
    /\ UNCHANGED <<store, providerUp, batchSize, running, ipc, findOutcome,
                   pendingNotes, batchStart, batchPos, stats, ilog, scans>>
    /\ UNCHANGED <<stopping, aliveTasks, loopFailed>>
    /\ UNCHANGED <<routerVars, pipeVars, botVars, vsVars>>

NextIndexer ==
    \/ IdxStart
    \/ IdxStop
    \/ IdxCancelled
    \/ IdxStopReturn
    \/ IdxWarmup
    \/ IdxFind
    \/ IdxIndexNote
    \/ IdxDelay
    \/ IdxLongSleep

SpecIndexer == InitIndexer /\ [][NextIndexer]_vars

\* a step of the loop task, or of a stop call waiting for it
LoopStep ==
    \/ IdxWarmup
    \/ IdxFind
    \/ IdxIndexNote
    \/ IdxDelay
    \/ IdxLongSleep
    \/ IdxCancelled
    \/ IdxStopReturn

\* the stores of up to a batch and a half
InitIndexerFair ==
    /\ InitIndexer
    /\ Len(store) <= DefaultBatchSize + 2

\* the event loop resumes the task: every sleep elapses and every external
\* call returns or raises
SpecIndexerFair ==
    /\ InitIndexerFair
    /\ [][NextIndexer]_vars
    /\ WF_vars(LoopStep)

\* the indexer with the manual reindex of POST /api/reindex, which may be
\* requested at any moment
NextReindex ==
    \/ NextIndexer
    \/ IdxReindexAll

SpecReindex == InitIndexer /\ [][NextReindex]_vars

----------------------------------------------------------------------------
\* a scan has run to its end: the loop task is in the sleep between scans
ScanDone == ipc = "sleep"

\* ceil(n / b)
CeilDiv(n, b) == (n + b - 1) \div b

\* the longest run of "index" entries that ends at position p of the log
RECURSIVE IndexRun(_)
IndexRun(p) ==
    IF p = 0 \/ ilog[p].op # "index" THEN 0 ELSE 1 + IndexRun(p - 1)

\* C18: a scan that found n pending documents with batch size b has, at its
\* end, processed ceil(n/b) batches: the documents in the order discovery
\* returned them, b at a time except possibly in the last batch, each
\* document once, and the inter-batch delay after every batch; at no moment
\* have more than b documents been processed since the last delay.
C18_Batching ==
    /\ \A p \in 1..Len(ilog) : IndexRun(p) <= batchSize
    /\ ScanDone =>
          LET n  == Len(pendingNotes)
              b  == batchSize
              nb == CeilDiv(n, b)
          IN  /\ Len(ilog) = n + nb
              /\ \A j \in 1..nb :
                    LET first == (j - 1) * b
                        size  == Min(b, n - first)
                        at    == (j - 1) * (b + 1)
                    IN  /\ size >= 1
                        /\ j < nb => size = b
                        /\ \A r \in 1..size :
                              /\ ilog[at + r].op = "index"
                              /\ ilog[at + r].id = pendingNotes[first + r].id
                        /\ ilog[at + size + 1] = Slept(DelaySeconds)

\* scenario D: seven pending documents and batch size five give a batch of
\* five, the delay, a batch of two, the delay
C18_Witness ==
    /\ ScanDone
    /\ batchSize = DefaultBatchSize
    /\ Len(pendingNotes) = DefaultBatchSize + 2
    /\ Len(ilog) = DefaultBatchSize + 2 + 2
    /\ ilog[DefaultBatchSize + 1] = Slept(DelaySeconds)
    /\ ilog[DefaultBatchSize + 2].op = "index"
    /\ ilog[Len(ilog)] = Slept(DelaySeconds)

----------------------------------------------------------------------------
\* _find_pending_notes has been called
FindDone == findOutcome # "none"

\* the list is in the order the notes were created, oldest first
OldestFirst(found) ==
    \A a, b \in 1..Len(found) :
        a < b => Stored(found[a].id).ctime <= Stored(found[b].id).ctime

\* no document of the list has the marker in the content the store holds
NoneMarked(found) ==
    \A a \in 1..Len(found) : ~HasMarker(Stored(found[a].id).data)

\* C19: the list a call of _find_pending_notes returned has at most 50
\* documents, is ordered oldest-first by creation time and holds no document
\* whose stored content carries the indexed marker; when the document store
\* or the vector stats call failed, the list is empty.
C19_Discovery ==
    FindDone =>
        /\ Len(pendingNotes) <= PendingCap
        /\ OldestFirst(pendingNotes)
        /\ NoneMarked(pendingNotes)
        /\ findOutcome # "ok" => pendingNotes = <<>>

\* the parts of the discovery contract that do not depend on fields of the
\* listed documents: the cap, and the empty list on a failure
DiscoveryCapAndFailure ==
    FindDone =>
        /\ Len(pendingNotes) <= PendingCap
        /\ findOutcome # "ok" => pendingNotes = <<>>

----------------------------------------------------------------------------
\* the positions of the log at which a document went through _index_note
IndexSteps == {p \in 1..Len(ilog) : ilog[p].op = "index"}

\* the document taken at position p has a content to index and its
\* embedding cannot be made: indexing it fails
IndexingFails(p) ==
    /\ p \in IndexSteps
    /\ Stored(ilog[p].id).data = "plain"
    /\ ~providerUp

\* the failures _process_batch has caught in the current scan
CaughtFailures == {p \in IndexSteps : ilog[p].result = "failed"}

BatchLoopCountsOnce ==
    /\ scans = 1 => stats.failed_notes = Cardinality(CaughtFailures)
    /\ \A p, q \in IndexSteps : ilog[p].id = ilog[q].id => p = q
    /\ ScanDone =>
          \A a \in 1..Len(pendingNotes) :
              \E p \in IndexSteps : ilog[p].id = pendingNotes[a].id

\* no listed document ever gets past the content test of _index_note
NothingIndexed == \A p \in IndexSteps : ilog[p].result = "skipped"

----------------------------------------------------------------------------
\* reindex_all has returned, and a scan of the loop whose discovery met the
\* same outcome on the same store has ended
ReindexAndScanDone ==
    /\ reindex.status = "returned"
    /\ ScanDone
    /\ reindex.outcome = findOutcome

\* the documents of the scan log, without the delays
ScanIndexLog == SelectSeq(ilog, LAMBDA ev : ev.op = "index")

\* the documents of reindex_all whose indexing fails: they have a content to
\* index and the embedding cannot be made
ReindexFailing ==
    {j \in 1..Len(reindex.found) :
        Stored(reindex.found[j].id).data = "plain" /\ ~providerUp}

ReindexDiscoversAndCounts ==
    /\ ReindexAndScanDone =>
          /\ reindex.found = pendingNotes
          /\ reindex.log = ScanIndexLog
    /\ reindex.status = "returned" =>
          /\ Len(reindex.log) = Len(reindex.found)
          /\ reindex.returned = [success |-> TRUE, notes_processed |-> Len(reindex.log)]

----------------------------------------------------------------------------
\* the indexer is idle: not running, and no stop call is waiting for a task
Idle == ~running /\ ~stopping

\* C22: a task is created only by a start from idle, which sets the running
\* flag and leaves exactly one task alive, so a start while running creates
\* none; the running flag is cleared only by a stop, which then waits for the
\* cancelled task; a stop returns only when the task has ended; at most one
\* loop task is alive; and while the indexer is idle, as it is after a stop
\* has returned, no discovery and no indexing takes place.
C22_Lifecycle ==
    [][/\ aliveTasks' <= 1
       /\ aliveTasks' > aliveTasks => Idle /\ aliveTasks = 0 /\ running' /\ aliveTasks' = 1
       /\ running /\ ~running' => stopping' /\ aliveTasks' = aliveTasks
       /\ stopping /\ ~stopping' => aliveTasks = 0 /\ ipc = "idle" /\ ~running'
       /\ Idle /\ Idle' => /\ scans' = scans
                           /\ ilog' = ilog
                           /\ stats' = stats
                           /\ pendingNotes' = pendingNotes]_vars

\* the indexer has been started again after a stop that ended a task which
\* had scanned: the second task is the only one alive
C22_Witness ==
    /\ running
    /\ ipc = "warmup"
    /\ aliveTasks = 1
    /\ scans > 0

----------------------------------------------------------------------------
\* a stop call always returns, with the task ended
StopEndsTask == stopping ~> Idle /\ aliveTasks = 0

\* C24: while the indexer is running, the loop task is alive whatever
\* external call has failed, and discovery is executed again: from every
\* point of the loop behind a discovery, failed or not, the task comes to its
\* next call of _find_pending_notes, unless a stop comes first.
C24_LoopLiveness ==
    /\ [](running => aliveTasks = 1 /\ ipc # "idle")
    /\ (running /\ ipc # "find") ~> (ipc = "find" \/ ~running)

\* a discovery has run in a cycle that follows a failed external call
C24_Witness ==
    /\ running
    /\ loopFailed
    /\ scans >= 2
    /\ findOutcome = "ok"

----------------------------------------------------------------------------
\* _analyze_intent has run in the current call
Classified == pc = "done" /\ intent # "none"

IntentLabels == {"command", "question", "note"}

\* the chain of C25 with `isCommand` as its first test
IntentChain(isCommand) ==
    /\ intent \in IntentLabels
    /\ IF isCommand
       THEN intent = "command" /\ llmOutcome = LlmNotCalled
       ELSE IF QuestionLike(message)
       THEN intent = "question" /\ llmOutcome = LlmNotCalled
       ELSE IF WordCount(Text(message)) < WordThreshold
       THEN intent = "note" /\ llmOutcome = LlmNotCalled
       ELSE /\ llmOutcome # LlmNotCalled
            /\ IF llmOutcome.status = "replied" /\ llmOutcome.word \in IntentLabels
               THEN intent = llmOutcome.word
               ELSE intent = "note"

\* C25 as stated: the first test of the chain is whether the message starts
\* with '/'.
C25_Original ==
    Classified => IntentChain(StartsWith(Text(message), <<"/">>))

\* C25, amended: the label is one of command, question, note; a message that
\* starts with '/' once surrounding whitespace is stripped is a command;
\* otherwise one with a question mark or a leading interrogative is a
\* question; otherwise one of fewer than 15 words is a note; the completion
\* call is made only when none of these rules fires, and its failure or a
\* reply outside the three labels gives note.
C25_IntentChain ==
    Classified => IntentChain(StartsWith(Strip(Text(message)), <<"/">>))

\* a long message no rule decides was given to the classifier, whose reply
\* was none of the labels
C25_Witness ==
    /\ Classified
    /\ llmOutcome.status = "replied"
    /\ llmOutcome.word \notin IntentLabels
    /\ intent = "note"

----------------------------------------------------------------------------
(* VectorStoreClient (vector_store.py) over Qdrant.  The callers are
   coroutines of one event loop: the code between two awaits runs as one
   step, and the steps of different callers interleave at every await.  A
   request to Qdrant and the resumption of its caller are one step.  A
   request raises when Qdrant cannot be reached, when create_collection
   names a collection that exists, and when upsert or search name a
   collection that does not exist. *)

MaxCalls == 3

VsOps == {"initialize", "upsert_note", "search_similar", "get_stats", "clear_collection"}

VsNoteIds == 1..MaxNotes

\* the call of caller c ends with the given result
VsEnded(c, res) == [vsCalls[c] EXCEPT !.at = "idle", !.result = res]

\* initialize has returned inside the call of caller c
VsInitialized(c) ==
    IF vsCalls[c].then = "return" THEN VsEnded(c, "ok")
    ELSE [vsCalls[c] EXCEPT !.at = "body"]

\* the first statement of initialize, run by a call that has just begun or
\* by clear_collection after its delete
VsEnterInitialize(c, call) ==
    IF vsInitialized
    THEN (IF call.then = "return"
          THEN [call EXCEPT !.at = "idle", !.result = "ok"]
          ELSE [call EXCEPT !.at = "body"])
    ELSE [call EXCEPT !.at = "get_collections"]

\* a caller starts a call on the client; every operation begins with
\* `await self.initialize()`
VsCall(c, op, n) ==
    /\ vsCalls[c].at = "idle"
    /\ vsStarted < MaxCalls
    /\ vsStarted' = vsStarted + 1
    /\ vsCalls' = [vsCalls EXCEPT ![c] =
          VsEnterInitialize(c, [op |-> op, at |-> "idle", note |-> n, result |-> "none",
                                then |-> IF op = "initialize" THEN "return" ELSE "body"])]
    /\ UNCHANGED <<vsInitialized, vsExists, vsPoints, vsChecks, vsCreates, vsOutages>>
    /\ UNCHANGED <<routerVars, pipeVars, idxVars, botVars>>

\* initialize: get_collections and the test of the collection name
VsGetCollections(c, up) ==
    /\ vsCalls[c].at = "get_collections"
    /\ vsChecks' = IF up THEN vsChecks + 1 ELSE vsChecks
    /\ vsOutages' = IF up THEN vsOutages ELSE vsOutages + 1
    /\ IF ~up
       THEN /\ vsCalls' = [vsCalls EXCEPT ![c] = VsEnded(c, "unreachable")]
            /\ UNCHANGED vsInitialized
       ELSE IF vsExists
       THEN /\ vsInitialized' = TRUE
            /\ vsCalls' = [vsCalls EXCEPT ![c] = VsInitialized(c)]
       ELSE /\ vsCalls' = [vsCalls EXCEPT ![c] = [@ EXCEPT !.at = "create_collection"]]
            /\ UNCHANGED vsInitialized
    /\ UNCHANGED <<vsExists, vsPoints, vsCreates, vsStarted>>
    /\ UNCHANGED <<routerVars, pipeVars, idxVars, botVars>>

\* initialize: create_collection, then _initialized = True
VsCreateCollection(c, up) ==
    /\ vsCalls[c].at = "create_collection"
    /\ vsCreates' = IF up THEN vsCreates + 1 ELSE vsCreates
    /\ vsOutages' = IF up THEN vsOutages ELSE vsOutages + 1
    /\ IF ~up
       THEN /\ vsCalls' = [vsCalls EXCEPT ![c] = VsEnded(c, "unreachable")]
            /\ UNCHANGED <<vsInitialized, vsExists, vsPoints>>
       ELSE IF vsExists
       THEN /\ vsCalls' = [vsCalls EXCEPT ![c] = VsEnded(c, "already_exists")]
            /\ UNCHANGED <<vsInitialized, vsExists, vsPoints>>
       ELSE /\ vsExists' = TRUE
            /\ vsPoints' = {}
            /\ vsInitialized' = TRUE
            /\ vsCalls' = [vsCalls EXCEPT ![c] = VsInitialized(c)]
    /\ UNCHANGED <<vsChecks, vsStarted>>
    /\ UNCHANGED <<routerVars, pipeVars, idxVars, botVars>>

\* upsert_note after initialize: client.upsert
VsUpsert(c, up) ==
    /\ vsCalls[c].at = "body"
    /\ vsCalls[c].op = "upsert_note"
    /\ vsOutages' = IF up THEN vsOutages ELSE vsOutages + 1
    /\ IF ~up
       THEN /\ vsCalls' = [vsCalls EXCEPT ![c] = VsEnded(c, "unreachable")]
            /\ UNCHANGED vsPoints
       ELSE IF ~vsExists
       THEN /\ vsCalls' = [vsCalls EXCEPT ![c] = VsEnded(c, "not_found")]
            /\ UNCHANGED vsPoints
       ELSE /\ vsPoints' = vsPoints \cup {vsCalls[c].note}
            /\ vsCalls' = [vsCalls EXCEPT ![c] = VsEnded(c, "ok")]
    /\ UNCHANGED <<vsInitialized, vsExists, vsChecks, vsCreates, vsStarted>>
    /\ UNCHANGED <<routerVars, pipeVars, idxVars, botVars>>

\* search_similar after initialize: client.search
VsSearch(c, up) ==
    /\ vsCalls[c].at = "body"
    /\ vsCalls[c].op = "search_similar"
    /\ vsOutages' = IF up THEN vsOutages ELSE vsOutages + 1
    /\ vsCalls' = [vsCalls EXCEPT ![c] =
          VsEnded(c, IF ~up THEN "unreachable" ELSE IF ~vsExists THEN "not_found" ELSE "ok")]
    /\ UNCHANGED <<vsInitialized, vsExists, vsPoints, vsChecks, vsCreates, vsStarted>>
    /\ UNCHANGED <<routerVars, pipeVars, idxVars, botVars>>

\* get_stats after initialize: client.get_collection; an error is caught
\* and zeros are returned
VsGetStats(c, up) ==
    /\ vsCalls[c].at = "body"
    /\ vsCalls[c].op = "get_stats"
    /\ vsOutages' = IF up THEN vsOutages ELSE vsOutages + 1
    /\ vsCalls' = [vsCalls EXCEPT ![c] =
          VsEnded(c, IF up /\ vsExists THEN "ok" ELSE "zeros")]
    /\ UNCHANGED <<vsInitialized, vsExists, vsPoints, vsChecks, vsCreates, vsStarted>>
    /\ UNCHANGED <<routerVars, pipeVars, idxVars, botVars>>

\* clear_collection after initialize: client.delete_collection, then
\* initialize again.  Deleting a collection that does not exist is
\* rejected or answered as done, depending on the server.
VsClear(c, up) ==
    /\ vsCalls[c].at = "body"
    /\ vsCalls[c].op = "clear_collection"
    /\ vsOutages' = IF up THEN vsOutages ELSE vsOutages + 1
    /\ IF ~up
       THEN /\ vsCalls' = [vsCalls EXCEPT ![c] = VsEnded(c, "unreachable")]
            /\ UNCHANGED <<vsExists, vsPoints>>
       ELSE \E deleted \in (IF vsExists THEN {TRUE} ELSE BOOLEAN) :
              IF ~deleted
              THEN /\ vsCalls' = [vsCalls EXCEPT ![c] = VsEnded(c, "not_found")]
                   /\ UNCHANGED <<vsExists, vsPoints>>
              ELSE /\ vsExists' = FALSE
                   /\ vsPoints' = {}
                   /\ vsCalls' = [vsCalls EXCEPT ![c] =
                         VsEnterInitialize(c, [vsCalls[c] EXCEPT !.then = "return"])]
    /\ UNCHANGED <<vsInitialized, vsChecks, vsCreates, vsStarted>>
    /\ UNCHANGED <<routerVars, pipeVars, idxVars, botVars>>

VsBegin == \E c \in VsCallers, op \in VsOps, n \in VsNoteIds : VsCall(c, op, n)

VsListing == \E c \in VsCallers, up \in BOOLEAN : VsGetCollections(c, up)

VsCreating == \E c \in VsCallers, up \in BOOLEAN : VsCreateCollection(c, up)

VsUpserting == \E c \in VsCallers, up \in BOOLEAN : VsUpsert(c, up)

VsSearching == \E c \in VsCallers, up \in BOOLEAN : VsSearch(c, up)

VsStats == \E c \in VsCallers, up \in BOOLEAN : VsGetStats(c, up)

VsClearing == \E c \in VsCallers, up \in BOOLEAN : VsClear(c, up)

NextVector ==
    \/ VsBegin
    \/ VsListing
    \/ VsCreating
    \/ VsUpserting
    \/ VsSearching
    \/ VsStats
    \/ VsClearing

SpecVector == Init /\ [][NextVector]_vars

----------------------------------------------------------------------------
(* Research mode of the bot *)

\* the step is handle_text_message reaching route_message
RoutingStep == pc = "idle" /\ pc' = "process"

\* the step ends the handling of a text message that was not routed
UnroutedStep == pc = "idle" /\ pc' = "idle" /\ botHist.sinceHandled /\ ~botHist'.sinceHandled

\* the step ends the handling of a text message that was taken up (it is
\* not a command the handler ignores) and was not routed
FailedStep == UnroutedStep /\ botHist'.last # "ignored"

\* the routing call of the step carries the flag and goes to research
RoutedToResearch ==
    /\ RoutingStep
    /\ Get(context', "awaiting_research", FALSE)
    /\ target' = "research"

\* the agent an intent alone selects when all three agents are registered
ByIntent(i) == IF i = "question" THEN "qa" ELSE "note_taker"

----------------------------------------------------------------------------
(* clear_collection *)

\* the step is the return, without error, of a clear_collection call
ClearReturned(c) ==
    /\ vsCalls[c].op = "clear_collection"
    /\ vsCalls[c].at # "idle"
    /\ vsCalls'[c].at = "idle"
    /\ vsCalls'[c].result = "ok"

\* C27: when clear_collection returns without error the collection exists
\* and holds no vectors, so that the calls that follow find a collection.
C27_ClearRecreates ==
    [][\A c \in VsCallers : ClearReturned(c) => vsExists' /\ vsPoints' = {}]_vars

\* what the code does: clear_collection returns with the collection deleted
\* and the client still marked initialized, so that no later call of the
\* client creates the collection
ClearOnlyDeletes ==
    [][\A c \in VsCallers : ClearReturned(c) => ~vsExists' /\ vsInitialized']_vars

\* an upsert_note has failed on the collection that a clear_collection of
\* the other caller had deleted
UpsertAfterClearFails ==
    /\ vsOutages = 0
    /\ vsCalls["indexer"].op = "clear_collection"
    /\ vsCalls["indexer"].result = "ok"
    /\ vsCalls["bot"].op = "upsert_note"
    /\ vsCalls["bot"].result = "not_found"

----------------------------------------------------------------------------
(* Progress of the indexer over a store that nothing else writes to *)

\* the step is a discovery that follows an earlier discovery, both of which
\* met no error
NextScanStep ==
    /\ scans >= 1
    /\ scans' = scans + 1
    /\ findOutcome = "ok"
    /\ findOutcome' = "ok"

\* the documents with a text to index that the scan that ends took through
\* _index_note with no error
HandledIds ==
    {ilog[j].id : j \in {k \in 1..Len(ilog) :
                            /\ ilog[k].op = "index"
                            /\ ilog[k].result # "failed"
                            /\ Stored(ilog[k].id).data = "plain"}}

PendingIds(list) == {list[j].id : j \in 1..Len(list)}

\* C28: with no document added and no external call failing, a document
\* that a scan has taken through indexing with no error is not pending in
\* the scan after it, so that the pending list shrinks towards empty.
C28_Progress ==
    [][NextScanStep => HandledIds \cap PendingIds(pendingNotes') = {}]_vars

\* what the code does: the scan after a scan finds the same pending list,
\* and no scan adds a vector
PendingNeverShrinks ==
    [][/\ NextScanStep => pendingNotes' = pendingNotes
       /\ vectors' = vectors]_vars

\* a second scan has found the documents the first scan had handled
SamePendingAgain ==
    /\ scans = 2
    /\ findOutcome = "ok"
    /\ pendingNotes # <<>>
    /\ stats.failed_notes = 0
    /\ stats.last_run

----------------------------------------------------------------------------
(* The two dispatch paths *)

\* select_best_agent has returned for a message whose intent the heuristics
\* of _analyze_intent decide, with the three agents registered and no
\* can_handle raising
SelectedOnHeuristics ==
    /\ pc = "selected"
    /\ \A a \in AgentNames : Registered(a)
    /\ sbRaising = {}
    /\ HeuristicIntent(message) # "ambiguous"

\* the agent route_message dispatches the same message and context to
RoutedAgent == RouteTarget(context, HeuristicIntent(message))

\* C29 as stated: for a message whose intent is decided by the heuristics
\* the provider select_best_agent returns is the provider route_message
\* dispatches to.
C29_Original == SelectedOnHeuristics => sbResult = RoutedAgent

\* C29, amended: the two paths agree when research mode is armed and,
\* otherwise, exactly when the message is not a command and the question
\* test of _analyze_intent and the one of _is_question agree on it.
C29_PathsAgreeWhere ==
    SelectedOnHeuristics =>
        (sbResult = RoutedAgent
            <=> \/ Get(context, "awaiting_research", FALSE)
                \/ /\ HeuristicIntent(message) # "command"
                   /\ (HeuristicIntent(message) = "question") <=> IsQuestion(message))

\* both paths pick the Q&A agent for a question outside research mode
C29_Witness ==
    /\ SelectedOnHeuristics
    /\ ~Get(context, "awaiting_research", FALSE)
    /\ HeuristicIntent(message) = "question"
    /\ sbResult = "qa"
    /\ RoutedAgent = "qa"

\* where the paths part: a command has no selection and is routed to the note
\* taker, and a message only one of the question tests accepts goes to the
\* Q&A agent on one path and to the note taker on the other
PathsDiffer ==
    SelectedOnHeuristics /\ ~Get(context, "awaiting_research", FALSE) =>
        /\ (HeuristicIntent(message) = "command" /\ ~IsQuestion(message))
              => sbResult = "None" /\ RoutedAgent = "note_taker"
        /\ (HeuristicIntent(message) = "question" /\ ~IsQuestion(message))
              => sbResult = "note_taker" /\ RoutedAgent = "qa"
        /\ (HeuristicIntent(message) = "note" /\ IsQuestion(message))
              => sbResult = "qa" /\ RoutedAgent = "note_taker"

----------------------------------------------------------------------------
(* Concurrent initialization *)

\* C30: under any interleaving of calls on one client no call fails because
\* another call created the collection first and, as long as every request
\* reaches Qdrant, the existence check and create_collection are executed
\* at most once.
C30_InitializeOnce ==
    /\ \A c \in VsCallers : vsCalls[c].result # "already_exists"
    /\ vsOutages = 0 => vsChecks <= 1 /\ vsCreates <= 1

\* what the code gives: _initialized is never cleared, and a call that
\* begins when it is set makes no check and no create request
InitializedStaysSet ==
    [][vsInitialized =>
         /\ vsInitialized'
         /\ \A c \in VsCallers :
               vsCalls[c].at = "idle" =>
                   vsCalls'[c].at \notin {"get_collections", "create_collection"}]_vars

\* two calls have both found the collection missing and both asked for its
\* creation: the second request was rejected and its call has failed
SecondCreateRejected ==
    /\ vsOutages = 0
    /\ vsChecks = 2
    /\ vsCreates = 2
    /\ \E c \in VsCallers : vsCalls[c].result = "already_exists"

====
